---- MODULE Spec2Model ----
(***************************************************************************)
(* The documentation query server that deploy-mcp generates                *)
(* (MCP_SERVER_CODE in cli/src/commands/extract-github.ts): the transport  *)
(* router, the JSON-RPC engine, the source aggregator and the event-stream *)
(* transport.  One HTTP call is followed from its arrival to the end of    *)
(* its response; the worker keeps no state between calls.                  *)
(***************************************************************************)
EXTENDS Integers, Sequences, FiniteSets, TLC

VARIABLES
  env,        \* env.DOC_SOURCES after JSON.parse: the source registry
  pc,         \* where the HTTP call is
  request,    \* the HTTP request being served
  messages,   \* handlePost: `messages`
  handlers,   \* one handleRequest activation per message (or "none")
  response,   \* the Response object handed back to the runtime
  writer,     \* the writable end of the TransformStream
  sse,        \* handleSSE's async block: loop cursor and position
  timers,     \* handleGet: keepAlive interval and the close timeout
  clock       \* milliseconds since the HTTP call arrived

vars == <<env, pc, request, messages, handlers, response, writer, sse, timers, clock>>

----------------------------------------------------------------------------
(* Bounds of the model *)

MaxBatch == 2

----------------------------------------------------------------------------
(* Values *)

Undefined == "undefined"

Or(a, b) == IF a # Undefined THEN a ELSE b

\* An optional field of a JSON object: absent, or present with a value.
Absent(empty) == [defined |-> FALSE, items |-> empty]
Present(items) == [defined |-> TRUE, items |-> items]

\* A function entry of a class: name, function_type and desc.
FunctionRecord(n, t, d) == [name |-> n, function_type |-> t, desc |-> d]

\* A class entry of a raw.json: name, tags, desc and functions, and whatever
\* _source and _sourceUrl fields the entry has of its own.
Class(n, tags, d, functions, s, u) ==
  [name |-> n, tags |-> tags, desc |-> d, functions |-> functions,
   _source |-> s, _sourceUrl |-> u]

ClassRecord(n) == Class(n, Absent({}), Undefined, Absent(<<>>), Undefined, Undefined)

\* A DocSource as buildSourcesList writes it into DOC_SOURCES.  `data` is the
\* embedded snapshot for an embedded source and, for a remote one, the array
\* its raw.json endpoint serves when the fetch succeeds.
DocSource(n, u, r, g, e, d) ==
  [name |-> n, url |-> u, raw |-> r, github |-> g, embedded |-> e, data |-> d]

SrcUrl(n, d) == DocSource(n, "https://docs.example/", Undefined, Undefined, FALSE, d)
SrcRaw(n, d) == DocSource(n, Undefined, "https://raw.example/raw.json", Undefined, FALSE, d)
SrcEmbedded(n, d) == DocSource(n, Undefined, Undefined, "owner/repo", TRUE, d)

Foo == ClassRecord("Foo")
\* Two entries that come with _sourceUrl and _source fields of their own.
Bar == [ClassRecord("Bar") EXCEPT !._sourceUrl = "https://elsewhere.example/"]
Baz == [ClassRecord("Baz") EXCEPT !._source = "Elsewhere"]

Registries ==
  { <<SrcUrl("A", <<Foo, Bar>>), SrcRaw("B", <<Foo>>), SrcEmbedded("C", <<Baz>>)>>,
    <<SrcEmbedded("A", <<Foo, Bar>>)>> }

\* The documentation that the query tools are run on.
HttpOfA ==
  Class("Http", Present({"net"}), "client", Present(<<FunctionRecord("get", "method", "fetch"),
                                                       FunctionRecord("Read", "static", "read")>>),
        Undefined, Undefined)
FooOfA ==
  Class("Foo", Present({"ui", "net"}), "foo", Present(<<FunctionRecord("render", "method", "draw"),
                                                        FunctionRecord("get", "static", "lookup")>>),
        Undefined, Undefined)
FooOfB ==
  Class("Foo", Absent({}), Undefined, Present(<<FunctionRecord("render", "event", "redraw")>>),
        Undefined, Undefined)
BarOfB == Class("Bar", Present({}), "bar", Absent(<<>>), Undefined, Undefined)

\* DOC_SOURCES holding text that JSON.parse rejects.  The model keeps the
\* registry as the sequence JSON.parse returns and lets this value stand for
\* such text.
NotJson == <<DocSource("[{", Undefined, Undefined, Undefined, FALSE, <<>>)>>

\* Registries of the query runs: a remote and an embedded source; the
\* registry of --include-github a/lib --extract-github b/lib, whose two
\* sources both get the name lib; a registry from a config file whose
\* sources are taken as they are, one with a snapshot next to url and raw,
\* one with an empty snapshot next to raw, one with raw alone; and a registry
\* that does not parse.
QueryRegistries ==
  { <<SrcUrl("A", <<HttpOfA, FooOfA>>), SrcEmbedded("B", <<FooOfB, BarOfB>>)>>,
    <<DocSource("lib", Undefined, "https://a.github.io/lib/raw.json", Undefined, FALSE,
                <<FooOfA>>),
      DocSource("lib", Undefined, Undefined, "b/lib", TRUE, <<FooOfB, BarOfB>>)>>,
    <<DocSource("E", "https://docs.example/", "https://raw.example/raw.json", Undefined, TRUE,
                <<FooOfB>>),
      DocSource("F", Undefined, "https://raw.example/f.json", Undefined, TRUE, <<>>),
      SrcRaw("G", <<BarOfB>>)>>,
    NotJson }

----------------------------------------------------------------------------
(* Strings of the query engine *)

\* The characters of the names and queries that the model uses.
Spelling ==
  [Foo |-> <<"F", "o", "o">>, Bar |-> <<"B", "a", "r">>, Baz |-> <<"B", "a", "z">>,
   Http |-> <<"H", "t", "t", "p">>, Widget |-> <<"W", "i", "d", "g", "e", "t">>,
   OO |-> <<"O", "O">>, ht |-> <<"h", "t">>,
   render |-> <<"r", "e", "n", "d", "e", "r">>, Read |-> <<"R", "e", "a", "d">>,
   get |-> <<"g", "e", "t">>, nope |-> <<"n", "o", "p", "e">>,
   RE |-> <<"R", "E">>]

Spell(str) == IF str = "" THEN <<>> ELSE Spelling[str]

LowerCase ==
  [B |-> "b", E |-> "e", F |-> "f", H |-> "h", O |-> "o", R |-> "r", W |-> "w"]

\* String.prototype.toLowerCase
toLowerCase(chars) ==
  [k \in 1..Len(chars) |->
     IF chars[k] \in DOMAIN LowerCase THEN LowerCase[chars[k]] ELSE chars[k]]

\* String.prototype.includes
includes(chars, part) ==
  \E k \in 0..(Len(chars) - Len(part)) : SubSeq(chars, k + 1, k + Len(part)) = part

\* name.toLowerCase().includes(query.toLowerCase())
ContainsIgnoringCase(name, query) ==
  includes(toLowerCase(Spell(name)), toLowerCase(Spell(query)))

\* A JavaScript value used as a condition: undefined and '' are falsy.
Truthy(v) == v # Undefined /\ v # ""

----------------------------------------------------------------------------
(* Aggregator: fetchAllSources *)

\* Stamp with the entry spread after the metadata: fields of the entry win.
StampUnderneath(cls, source) ==
  [cls EXCEPT
     !._source = Or(cls._source, source.name),
     !._sourceUrl = Or(cls._sourceUrl,
                       IF source.embedded
                       THEN Or(source.github, Or(source.url, source.raw))
                       ELSE Or(source.url, source.raw))]

\* The record pushed onto allData: the class's own fields, then _source and
\* _sourceUrl (which overwrite fields of the same name).
Stamp(cls, source) ==
  [cls EXCEPT
     !._source = source.name,
     !._sourceUrl = IF source.embedded
                    THEN Or(source.github, Or(source.url, source.raw))
                    ELSE Or(source.url, source.raw)]

StampAll(data, source) == [k \in 1..Len(data) |-> Stamp(data[k], source)]

\* rawUrl: source.raw, else source.url with '/raw.json' appended; only whether
\* it is defined decides the control flow.
HasRawUrl(source) == source.raw # Undefined \/ source.url # Undefined

\* What the awaited fetch and response.json() of one source can come to.
Outcomes == {"ok", "throws", "status", "badjson", "notiterable"}

\* fetchAllSources that looks at the url of a source before its snapshot.
RECURSIVE fetchAllSourcesLocatorFirst(_, _, _)
fetchAllSourcesLocatorFirst(sources, i, allData) ==
  IF i > Len(sources) THEN [idx |-> 0, allData |-> allData]
  ELSE IF sources[i].raw # Undefined \/ sources[i].url # Undefined
       THEN [idx |-> i, allData |-> allData]
  ELSE IF sources[i].embedded
       THEN fetchAllSourcesLocatorFirst(sources, i + 1,
                                        allData \o StampAll(sources[i].data, sources[i]))
  ELSE fetchAllSourcesLocatorFirst(sources, i + 1, allData)

\* The for-loop of fetchAllSources from source i on, up to its next await:
\* idx is the source whose fetch is awaited, 0 when the loop has ended.
RECURSIVE fetchAllSources(_, _, _)
fetchAllSources(sources, i, allData) ==
  IF i > Len(sources) THEN [idx |-> 0, allData |-> allData]
  ELSE IF sources[i].embedded
       THEN fetchAllSources(sources, i + 1, allData \o StampAll(sources[i].data, sources[i]))
  ELSE IF ~HasRawUrl(sources[i]) THEN fetchAllSources(sources, i + 1, allData)
  ELSE [idx |-> i, allData |-> allData]

\* fetchSettled with a best-of-first race in place of the join: the loop ends
\* with the first fetch that settles.
fetchSettledRace(sources, i, allData, outcome) ==
  [idx |-> 0,
   allData |-> IF outcome = "ok"
               THEN allData \o StampAll(sources[i].data, sources[i])
               ELSE allData]

\* fetchSettled with the try/catch around the loop instead of inside it: the
\* first failure ends the aggregation.
fetchSettledAbort(sources, i, allData, outcome) ==
  IF outcome = "ok"
  THEN fetchAllSources(sources, i + 1, allData \o StampAll(sources[i].data, sources[i]))
  ELSE [idx |-> 0, allData |-> allData]

\* fetchSettled that puts the records of the source that has just answered in
\* front of those already merged.
fetchSettledPrepend(sources, i, allData, outcome) ==
  fetchAllSources(sources, i + 1,
                  IF outcome = "ok"
                  THEN StampAll(sources[i].data, sources[i]) \o allData
                  ELSE allData)

\* The rest of the loop body for source i once its fetch has settled: only an
\* ok response with an iterable JSON body adds records; a rejected fetch, a
\* non-ok status and a body that cannot be parsed or iterated add none.
fetchSettled(sources, i, allData, outcome) ==
  fetchAllSources(sources, i + 1,
                  IF outcome = "ok"
                  THEN allData \o StampAll(sources[i].data, sources[i])
                  ELSE allData)

----------------------------------------------------------------------------
(* JSON-RPC engine: handleRequest *)

\* The text of a content item: JSON.stringify of `data` (form "json"), or a
\* sentence built from a template, the values in `about` and a count.
Text(form, about, count) == [form |-> form, about |-> about, count |-> count]

Json == Text("json", <<>>, 0)

NoEnvelope ==
  [id |-> Undefined, kind |-> "none", code |-> 0, message |-> Undefined,
   detail |-> Undefined, data |-> <<>>, sources |-> <<>>, text |-> Json]

ResultEnvelope(id, what, data, srcs) ==
  [id |-> id, kind |-> "result", code |-> 0, message |-> Undefined,
   detail |-> what, data |-> data, sources |-> srcs, text |-> Json]

ErrorEnvelope(id, code, msg, detail) ==
  [id |-> id, kind |-> "error", code |-> code, message |-> msg,
   detail |-> detail, data |-> <<>>, sources |-> <<>>, text |-> Json]

\* result: { content: [{ type: 'text', text }] } with a text that is a
\* sentence, followed by JSON.stringify of `data` when there is any.
TextEnvelope(id, text, data) ==
  [ResultEnvelope(id, "content", data, <<>>) EXCEPT !.text = text]

\* MethodNotFound that answers with the code of an invalid request.
InvalidRequest(id) == ErrorEnvelope(id, -32600, "Invalid Request", Undefined)

MethodNotFound(id) == ErrorEnvelope(id, -32601, "Method not found", Undefined)
UnknownTool(id, name) == ErrorEnvelope(id, -32601, "Unknown tool: ", name)
\* InternalError that forgets the request's id.
InternalErrorNoId(id, why) == ErrorEnvelope(Undefined, -32603, "Internal error", why)

InternalError(id, why) == ErrorEnvelope(id, -32603, "Internal error", why)

\* A handleRequest activation.  allData is the corpus that fetchAllSources
\* has merged so far (rawData once it has returned); started/fetched/failed
\* record which sources'
\* fetches this activation has issued, seen settle and seen fail; rank is the
\* number of activations of the same HTTP call that had returned before it.
NoHandler ==
  [pc |-> "none", idx |-> 0, allData |-> <<>>, started |-> {}, fetched |-> {},
   failed |-> {},
   result |-> NoEnvelope, rank |-> 0]

Returned(envelope) ==
  [pc |-> "done", idx |-> 0, allData |-> <<>>, started |-> {}, fetched |-> {},
   failed |-> {},
   result |-> envelope, rank |-> 0]

\* sources.map(s => ({ name: s.name, url: s.url || s.raw }))
SourceInfo(sources) ==
  [k \in 1..Len(sources) |-> [name |-> sources[k].name,
                              url |-> Or(sources[k].url, sources[k].raw)]]

SelectSource(rawData, source) ==
  SelectSeq(rawData, LAMBDA cls : cls._source = source)

\* searchClasses that compares the name with the query as they are written.
searchClassesCaseSensitive(rawData, args) ==
  LET filteredClasses ==
        SelectSeq(rawData, LAMBDA cls :
          /\ ~(Truthy(args.source) /\ cls._source # args.source)
          /\ ~(Truthy(args.query) /\ ~includes(Spell(cls.name), Spell(args.query)))
          /\ ~(Truthy(args.tag) /\ (~cls.tags.defined \/ args.tag \notin cls.tags.items)))
  IN [k \in 1..Len(filteredClasses) |->
        [name |-> filteredClasses[k].name,
         tags |-> filteredClasses[k].tags,
         description |-> filteredClasses[k].desc,
         source |-> filteredClasses[k]._source]]

\* case 'search_classes': the filter and the projection.
searchClasses(rawData, args) ==
  LET filteredClasses ==
        SelectSeq(rawData, LAMBDA cls :
          /\ ~(Truthy(args.source) /\ cls._source # args.source)
          /\ ~(Truthy(args.query) /\ ~ContainsIgnoringCase(cls.name, args.query))
          /\ ~(Truthy(args.tag) /\ (~cls.tags.defined \/ args.tag \notin cls.tags.items)))
  IN [k \in 1..Len(filteredClasses) |->
        [name |-> filteredClasses[k].name,
         tags |-> filteredClasses[k].tags,
         description |-> filteredClasses[k].desc,
         source |-> filteredClasses[k]._source]]

\* rawData.filter(cls => cls.name === name), then by source when one is given.
classesNamed(rawData, name, source) ==
  LET classData == SelectSeq(rawData, LAMBDA cls : cls.name = name)
  IN IF Truthy(source)
     THEN SelectSeq(classData, LAMBDA cls : cls._source = source)
     ELSE classData

\* get_class that answers with the first of several matches.
getClassFirst(id, rawData, args) ==
  LET classData == classesNamed(rawData, args.name, args.source) IN
  IF Len(classData) = 0
  THEN TextEnvelope(id, Text("classNotFound", <<args.name>>, 0), <<>>)
  ELSE TextEnvelope(id, Text("object", <<>>, 0), <<classData[1]>>)

\* case 'get_class'
getClass(id, rawData, args) ==
  LET classData == classesNamed(rawData, args.name, args.source) IN
  IF Len(classData) = 0
  THEN TextEnvelope(id, Text("classNotFound", <<args.name>>, 0), <<>>)
  ELSE IF Len(classData) = 1
  THEN TextEnvelope(id, Text("object", <<>>, 0), <<classData[1]>>)
  ELSE TextEnvelope(id, Text("ambiguous", <<args.name>>, Len(classData)),
                    [k \in 1..Len(classData) |->
                       [name |-> classData[k].name,
                        source |-> classData[k]._source,
                        desc |-> classData[k].desc]])

\* cls.functions || []: the functions of a class, none when it has no list.
Functions(cls) == IF cls.functions.defined THEN cls.functions.items ELSE <<>>

\* The inner loop of search_functions over cls.functions || [].
functionsOf(cls, args) ==
  LET funcs == IF cls.functions.defined THEN cls.functions.items ELSE <<>>
      kept == SelectSeq(funcs, LAMBDA func :
                ~Truthy(args.query) \/ ContainsIgnoringCase(func.name, args.query))
  IN [k \in 1..Len(kept) |->
        [className |-> cls.name,
         name |-> kept[k].name,
         type |-> kept[k].function_type,
         description |-> kept[k].desc,
         source |-> cls._source]]

\* searchFunctions without the className test.
RECURSIVE searchFunctionsAnyClass(_, _, _)
searchFunctionsAnyClass(rawData, args, i) ==
  IF i > Len(rawData) THEN <<>>
  ELSE IF Truthy(args.source) /\ rawData[i]._source # args.source
       THEN searchFunctionsAnyClass(rawData, args, i + 1)
  ELSE functionsOf(rawData[i], args) \o searchFunctionsAnyClass(rawData, args, i + 1)

\* case 'search_functions': the loop over rawData from class i on.
RECURSIVE searchFunctions(_, _, _)
searchFunctions(rawData, args, i) ==
  IF i > Len(rawData) THEN <<>>
  ELSE IF Truthy(args.source) /\ rawData[i]._source # args.source
       THEN searchFunctions(rawData, args, i + 1)
  ELSE IF Truthy(args.className) /\ rawData[i].name # args.className
       THEN searchFunctions(rawData, args, i + 1)
  ELSE functionsOf(rawData[i], args) \o searchFunctions(rawData, args, i + 1)

\* targetClass.functions?.find(f => f.name === functionName): the matching
\* function that comes first, as a sequence of at most one element.
findFunction(targetClass, functionName) ==
  LET funcs == IF targetClass.functions.defined THEN targetClass.functions.items ELSE <<>>
      hits == SelectSeq(funcs, LAMBDA f : f.name = functionName)
  IN IF Len(hits) = 0 THEN <<>>
     ELSE <<[name |-> hits[1].name, function_type |-> hits[1].function_type,
             desc |-> hits[1].desc,
             _source |-> targetClass._source, _className |-> targetClass.name]>>

RECURSIVE foundFunctions(_, _, _)
foundFunctions(targetClasses, functionName, i) ==
  IF i > Len(targetClasses) THEN <<>>
  ELSE findFunction(targetClasses[i], functionName)
       \o foundFunctions(targetClasses, functionName, i + 1)

\* get_function that stops at the first class that has the function.
getFunctionFirst(id, rawData, args) ==
  LET targetClasses == classesNamed(rawData, args.className, args.source)
      found == foundFunctions(targetClasses, args.functionName, 1)
  IN
  IF Len(targetClasses) = 0
  THEN TextEnvelope(id, Text("classNotFound", <<args.className>>, 0), <<>>)
  ELSE IF Len(found) = 0
  THEN TextEnvelope(id, Text("functionNotFound", <<args.functionName, args.className>>, 0), <<>>)
  ELSE TextEnvelope(id, Text("object", <<>>, 0), <<found[1]>>)

\* case 'get_function'
getFunction(id, rawData, args) ==
  LET targetClasses == classesNamed(rawData, args.className, args.source)
      found == foundFunctions(targetClasses, args.functionName, 1)
  IN
  IF Len(targetClasses) = 0
  THEN TextEnvelope(id, Text("classNotFound", <<args.className>>, 0), <<>>)
  ELSE IF Len(found) = 0
  THEN TextEnvelope(id, Text("functionNotFound", <<args.functionName, args.className>>, 0), <<>>)
  ELSE IF Len(found) = 1
  THEN TextEnvelope(id, Text("object", <<>>, 0), found)
  ELSE TextEnvelope(id, Text("array", <<>>, 0), found)

\* The switch on the tool name, entered after fetchAllSources has returned.
\* Without `arguments`, args is undefined and the first read of a property of
\* it throws: at once in get_raw_api_data, get_class and get_function, in the
\* callbacks of search_classes and search_functions only when rawData has a
\* record to visit.
callTool(message, rawData) ==
  LET id == message.id
      args == message.args
      noArgs == InternalError(id, "args is undefined")
  IN
  CASE message.tool = "get_raw_api_data" ->
         IF ~message.hasArgs THEN noArgs
         ELSE ResultEnvelope(id, "content",
                             IF Truthy(args.source)
                             THEN SelectSource(rawData, args.source)
                             ELSE rawData,
                             <<>>)
    [] message.tool = "search_classes" ->
         IF ~message.hasArgs
         THEN (IF rawData = <<>> THEN TextEnvelope(id, Text("array", <<>>, 0), <<>>) ELSE noArgs)
         ELSE TextEnvelope(id, Text("array", <<>>, 0), searchClasses(rawData, args))
    [] message.tool = "get_class" ->
         IF ~message.hasArgs THEN noArgs ELSE getClass(id, rawData, args)
    [] message.tool = "search_functions" ->
         IF ~message.hasArgs
         THEN (IF rawData = <<>> THEN TextEnvelope(id, Text("array", <<>>, 0), <<>>) ELSE noArgs)
         ELSE TextEnvelope(id, Text("array", <<>>, 0), searchFunctions(rawData, args, 1))
    [] message.tool = "get_function" ->
         IF ~message.hasArgs THEN noArgs ELSE getFunction(id, rawData, args)
    [] OTHER -> UnknownTool(id, message.tool)

\* The catalogue with list_sources left out of it.
ToolsWithoutListSources ==
  <<"get_raw_api_data", "search_classes", "get_class", "search_functions", "get_function">>

\* The `tools` array of the tools/list result: the names, in the order listed.
Tools ==
  <<"list_sources", "get_raw_api_data", "search_classes", "get_class",
    "search_functions", "get_function">>

\* handleRequest without its try/catch: a failure leaves no envelope behind.
handleRequestNoCatch(message, sources) ==
  IF message.method = "initialize"
  THEN Returned(ResultEnvelope(message.id, "initialize", <<>>, <<>>))
  ELSE IF message.method = "tools/list"
  THEN Returned(ResultEnvelope(message.id, "tools", Tools, <<>>))
  ELSE IF message.method = "tools/call" THEN
    IF ~message.hasParams
    THEN Returned(NoEnvelope)
    ELSE IF sources = NotJson
    THEN Returned(NoEnvelope)
    ELSE IF message.tool = "list_sources"
    THEN Returned(ResultEnvelope(message.id, "content", <<>>, SourceInfo(sources)))
    ELSE LET run == fetchAllSources(sources, 1, <<>>) IN
         IF run.idx = 0
         THEN [Returned(callTool(message, run.allData)) EXCEPT !.allData = run.allData]
         ELSE [pc |-> "fetching", idx |-> run.idx, allData |-> run.allData,
               started |-> {run.idx}, fetched |-> {}, failed |-> {},
               result |-> NoEnvelope, rank |-> 0]
  ELSE Returned(MethodNotFound(message.id))

\* handleRequest without the list_sources branch in front of the aggregation.
handleRequestAggregatesFirst(message, sources) ==
  IF message.method = "initialize"
  THEN Returned(ResultEnvelope(message.id, "initialize", <<>>, <<>>))
  ELSE IF message.method = "tools/list"
  THEN Returned(ResultEnvelope(message.id, "tools", Tools, <<>>))
  ELSE IF message.method = "tools/call" THEN
    IF ~message.hasParams
    THEN Returned(InternalError(message.id, "params is undefined"))
    ELSE IF sources = NotJson
    THEN Returned(InternalError(message.id, "Unexpected token"))
    ELSE LET run == fetchAllSources(sources, 1, <<>>) IN
         IF run.idx = 0
         THEN [Returned(callTool(message, run.allData)) EXCEPT !.allData = run.allData]
         ELSE [pc |-> "fetching", idx |-> run.idx, allData |-> run.allData,
               started |-> {run.idx}, fetched |-> {}, failed |-> {},
               result |-> NoEnvelope, rank |-> 0]
  ELSE Returned(MethodNotFound(message.id))

\* handleRequest up to its first await (or to its return when it awaits
\* nothing): the activation it leaves behind.
handleRequest(message, sources) ==
  IF message.method = "initialize"
  THEN Returned(ResultEnvelope(message.id, "initialize", <<>>, <<>>))
  ELSE IF message.method = "tools/list"
  THEN Returned(ResultEnvelope(message.id, "tools", Tools, <<>>))
  ELSE IF message.method = "tools/call" THEN
    IF ~message.hasParams
    THEN Returned(InternalError(message.id, "params is undefined"))
    ELSE IF sources = NotJson
    THEN Returned(InternalError(message.id, "Unexpected token"))
    ELSE IF message.tool = "list_sources"
    THEN Returned(ResultEnvelope(message.id, "content", <<>>, SourceInfo(sources)))
    ELSE LET run == fetchAllSources(sources, 1, <<>>) IN
         IF run.idx = 0
         THEN [Returned(callTool(message, run.allData)) EXCEPT !.allData = run.allData]
         ELSE [pc |-> "fetching", idx |-> run.idx, allData |-> run.allData,
               started |-> {run.idx}, fetched |-> {}, failed |-> {},
               result |-> NoEnvelope, rank |-> 0]
  ELSE Returned(MethodNotFound(message.id))

\* The activation h of `message` after the fetch it awaits has settled.
resume(message, sources, h, outcome) ==
  LET run == fetchSettled(sources, h.idx, h.allData, outcome)
      failed == IF outcome = "ok" THEN h.failed ELSE h.failed \cup {h.idx}
  IN
  IF run.idx = 0
  THEN [Returned(callTool(message, run.allData)) EXCEPT
          !.allData = run.allData,
          !.started = h.started, !.fetched = h.fetched \cup {h.idx},
          !.failed = failed]
  ELSE [h EXCEPT !.idx = run.idx, !.allData = run.allData,
                 !.started = h.started \cup {run.idx},
                 !.fetched = h.fetched \cup {h.idx},
                 !.failed = failed]

----------------------------------------------------------------------------
(* HTTP requests and JSON-RPC messages the model draws its inputs from *)

Requests ==
  [method : {"GET", "POST", "OPTIONS", "DELETE"},
   path   : {"/mcp", "/", "/docs"},
   accept : BOOLEAN,                 \* Accept includes 'text/event-stream'
   origin : {Undefined, "https://app.example"},
   body   : {"none"}]
  \cup
  [method : {"OPTIONS", "DELETE"},
   path   : {"/mcp/"},
   accept : {FALSE},
   origin : {Undefined, "https://app.example"},
   body   : {"none"}]

NoRequest ==
  [method |-> Undefined, path |-> Undefined, accept |-> FALSE, origin |-> Undefined,
   body |-> "none"]

\* params.arguments of a tools/call.
Arguments(source, query, tag, name, className, functionName) ==
  [source |-> source, query |-> query, tag |-> tag, name |-> name,
   className |-> className, functionName |-> functionName]

NoArguments == Arguments(Undefined, Undefined, Undefined, Undefined, Undefined, Undefined)

Message(id, method, hasParams, tool, hasArgs) ==
  [isNull |-> FALSE, id |-> id, method |-> method, hasParams |-> hasParams,
   tool |-> tool, hasArgs |-> hasArgs, args |-> NoArguments]

ToolCall(id, tool, args) ==
  [Message(id, "tools/call", TRUE, tool, TRUE) EXCEPT !.args = args]

\* The JSON value null as an element of the body.
Null ==
  [isNull |-> TRUE, id |-> Undefined, method |-> Undefined, hasParams |-> FALSE,
   tool |-> Undefined, hasArgs |-> FALSE, args |-> NoArguments]

Notification == Message(Undefined, "notifications/initialized", FALSE, Undefined, FALSE)

\* A tools/call sent without id and without params: a notification whose
\* handling would throw if it were handled.
FailingNotification == Message(Undefined, "tools/call", FALSE, Undefined, FALSE)

\* The shapes of message; "id" stands for an id that the body fills in.
Messages ==
  {Null, Notification, FailingNotification}
  \cup {Message("id", m, FALSE, Undefined, FALSE) :
          m \in {Undefined, "initialize", "tools/list", "resources/list", "tools/call"}}
  \cup {Message("id", "tools/call", TRUE, t, TRUE) :
          t \in {"list_sources", "get_raw_api_data", "delete_everything"}}
  \cup {Message("id", "tools/call", TRUE, "get_raw_api_data", FALSE)}

Ids == <<"id1", "id2", "id3", "id4">>

\* The bodies: every sequence of shapes, the messages with an id carrying
\* ids that are distinct within the body.
WithIds(shapes) ==
  [k \in 1..Len(shapes) |->
     IF shapes[k].id = "id" THEN [shapes[k] EXCEPT !.id = Ids[k]] ELSE shapes[k]]

Batches == {WithIds(shapes) : shapes \in UNION {[1..n -> Messages] : n \in 0..MaxBatch}}

\* The tools/call messages of the query runs.
QueryCalls ==
  {ToolCall("id1", "search_classes", [NoArguments EXCEPT !.source = s, !.query = q, !.tag = t]) :
     s \in {Undefined, "A", "lib"}, q \in {Undefined, "", "OO", "ht"},
     t \in {Undefined, "net", "ui"}}
  \cup
  {ToolCall("id1", "get_class", [NoArguments EXCEPT !.name = n, !.source = s]) :
     n \in {Undefined, "Foo", "Bar", "Widget"}, s \in {Undefined, "", "A", "B", "lib"}}
  \cup
  {ToolCall("id1", "search_functions",
            [NoArguments EXCEPT !.source = s, !.className = c, !.query = q]) :
     s \in {Undefined, "B"}, c \in {Undefined, "Foo", "Widget"},
     q \in {Undefined, "RE", "get"}}
  \cup
  {ToolCall("id1", "get_function",
            [NoArguments EXCEPT !.className = c, !.functionName = f, !.source = s]) :
     c \in {"Foo", "Http", "Bar", "Widget"}, f \in {"render", "get", "nope"},
     s \in {Undefined, "A", "lib"}}
  \cup
  {ToolCall("id1", "get_raw_api_data", [NoArguments EXCEPT !.source = s]) :
     s \in {Undefined, "B"}}
  \cup
  {Message("id1", "tools/call", TRUE, t, FALSE) :
     t \in {"list_sources", "get_raw_api_data", "search_classes", "get_class",
            "search_functions", "get_function", "delete_everything", Undefined}}
  \cup
  {ToolCall("id1", "delete_everything", NoArguments),
   Message("id1", "tools/call", FALSE, Undefined, FALSE),
   Message("id1", "tools/list", FALSE, Undefined, FALSE),
   Message("id1", "resources/list", FALSE, Undefined, FALSE)}

QueryBodies == {<<call>> : call \in QueryCalls}

----------------------------------------------------------------------------
(* Transport router *)

getCorsHeaders(req) == Or(req.origin, "*")

NoResponse ==
  [status |-> 0, body |-> "none", array |-> FALSE, envelopes |-> <<>>, cors |-> Undefined]

Response(status, body, array, envelopes, cors) ==
  [status |-> status, body |-> body, array |-> array, envelopes |-> envelopes,
   cors |-> cors]

NoWriter ==
  [state |-> "none", frames |-> <<>>, closeCalls |-> 0, heartbeats |-> 0,
   lastBeat |-> 0, lateWrites |-> 0]

NoTimers ==
  [keepAlive |-> [active |-> FALSE, due |-> 0],
   close |-> [active |-> FALSE, due |-> 0]]

Init ==
  /\ env \in Registries
  /\ pc = "idle"
  /\ request = NoRequest
  /\ messages = <<>>
  /\ handlers = <<>>
  /\ response = NoResponse
  /\ writer = NoWriter
  /\ sse = [cursor |-> 0, at |-> "none", failed |-> FALSE]
  /\ timers = NoTimers
  /\ clock = 0

IsMcp(req) == req.path \in {"/mcp", "/mcp/"}

\* A call that is answered at once, without a handler that awaits.
Answer(req, resp) ==
  /\ pc = "idle"
  /\ request' = req
  /\ response' = resp
  /\ pc' = "done"
  /\ UNCHANGED <<env, messages, handlers, writer, sse, timers, clock>>

\* Preflight that answers OPTIONS on every path.
PreflightAnyPath ==
  /\ pc = "idle"
  /\ \E req \in Requests :
    /\ req.method = "OPTIONS"
    /\ Answer(req, Response(204, "none", FALSE, <<>>, getCorsHeaders(req)))

Preflight ==
  /\ pc = "idle"
  /\ \E req \in Requests :
    /\ IsMcp(req) /\ req.method = "OPTIONS"
    /\ Answer(req, Response(204, "none", FALSE, <<>>, getCorsHeaders(req)))

MethodNotAllowed ==
  /\ pc = "idle"
  /\ \E req \in Requests :
    /\ IsMcp(req) /\ req.method \notin {"POST", "GET", "OPTIONS"}
    /\ Answer(req, Response(405, "text", FALSE, <<>>, Undefined))

Info ==
  /\ pc = "idle"
  /\ \E req \in Requests :
    /\ ~IsMcp(req) /\ req.path = "/" /\ req.method = "GET"
    /\ Answer(req, Response(200, "info", FALSE, <<>>, getCorsHeaders(req)))

NotFound ==
  /\ pc = "idle"
  /\ \E req \in Requests :
    /\ ~IsMcp(req) /\ ~(req.path = "/" /\ req.method = "GET")
    /\ Answer(req, Response(404, "text", FALSE, <<>>, Undefined))

----------------------------------------------------------------------------
(* JSON-RPC engine: handlePost *)

\* hasRequests that tests only msg.method.
RECURSIVE hasRequestsAnyMethod(_, _)
hasRequestsAnyMethod(msgs, i) ==
  IF i > Len(msgs) THEN "false"
  ELSE IF msgs[i].isNull THEN "throws"
  ELSE IF msgs[i].method # Undefined THEN "true"
  ELSE hasRequestsAnyMethod(msgs, i + 1)

\* messages.some(msg => msg.method && msg.id !== undefined): `some` stops at
\* the first message that satisfies the test; reading a property of null
\* throws a TypeError.
RECURSIVE hasRequests(_, _)
hasRequests(msgs, i) ==
  IF i > Len(msgs) THEN "false"
  ELSE IF msgs[i].isNull THEN "throws"
  ELSE IF msgs[i].method # Undefined /\ msgs[i].id # Undefined THEN "true"
  ELSE hasRequests(msgs, i + 1)

\* messages.filter(msg => msg.id !== undefined) visits every message.
FilterThrows(msgs) == \E i \in 1..Len(msgs) : msgs[i].isNull

NumReturned(hs) == Cardinality({j \in 1..Len(hs) : hs[j].pc = "done"})

\* dispatchAll without the filter on msg.id: an activation for every message.
dispatchEvery(msgs, sources) ==
  LET hs == [k \in 1..Len(msgs) |-> handleRequest(msgs[k], sources)]
  IN [k \in 1..Len(msgs) |->
        IF hs[k].pc = "done"
        THEN [hs[k] EXCEPT !.rank = NumReturned(SubSeq(hs, 1, k - 1))]
        ELSE hs[k]]

\* dispatchAll over a corpus kept in a binding of the module: an activation
\* after the first of a call finds the records of the earlier ones in it.
dispatchAllShared(msgs, sources) ==
  LET hs == [k \in 1..Len(msgs) |->
               IF msgs[k].id # Undefined
               THEN handleRequest(msgs[k], IF k = 1 THEN sources ELSE sources \o sources)
               ELSE NoHandler]
  IN [k \in 1..Len(msgs) |->
        IF hs[k].pc = "done"
        THEN [hs[k] EXCEPT !.rank = NumReturned(SubSeq(hs, 1, k - 1))]
        ELSE hs[k]]

\* messages.filter(...).map(msg => handleRequest(msg, sessionId, env)): every
\* activation is started, in input order, and runs to its first await.  The
\* activations are kept at the positions of their messages.
dispatchAll(msgs, sources) ==
  LET hs == [k \in 1..Len(msgs) |->
               IF msgs[k].id # Undefined THEN handleRequest(msgs[k], sources)
               ELSE NoHandler]
  IN [k \in 1..Len(msgs) |->
        IF hs[k].pc = "done"
        THEN [hs[k] EXCEPT !.rank = NumReturned(SubSeq(hs, 1, k - 1))]
        ELSE hs[k]]

\* Responses collected in the order in which the activations returned.
ResponsesAsCompleted(hs) ==
  LET rs == SelectSeq(hs, LAMBDA h : h.pc # "none")
  IN [k \in 1..Len(rs) |->
        (CHOOSE h \in {rs[j] : j \in 1..Len(rs)} : h.rank = k - 1).result]

\* What Promise.all resolves to: the results in the order of the promises.
Responses(hs) ==
  LET rs == SelectSeq(hs, LAMBDA h : h.pc # "none")
  IN [k \in 1..Len(rs) |-> rs[k].result]

\* An HTTP call arrives at handlePost with a body that request.json() accepts.
Post(req, isArray, msgs) ==
  /\ pc = "idle"
  /\ IsMcp(req) /\ req.method = "POST"
  /\ isArray \/ Len(msgs) = 1
  /\ request' = [req EXCEPT !.body = IF isArray THEN "array" ELSE "single"]
  /\ messages' = msgs

\* PostParseError without the try/catch around request.json(): the
\* exception leaves handlePost.
PostParseErrorUncaught ==
  /\ pc = "idle"
  /\ \E req \in Requests :
    /\ IsMcp(req) /\ req.method = "POST"
    /\ Answer([req EXCEPT !.body = "unparseable"],
              Response(500, "exception", FALSE, <<>>, Undefined))

PostParseError ==
  /\ pc = "idle"
  /\ \E req \in Requests :
    /\ IsMcp(req) /\ req.method = "POST"
    /\ Answer([req EXCEPT !.body = "unparseable"],
              Response(400, "json", FALSE,
                       <<ErrorEnvelope(Undefined, -32700, "Parse error", Undefined)>>,
                       getCorsHeaders(req)))

\* An exception that leaves handlePost: the runtime answers for the worker.
PostThrows ==
  /\ pc = "idle"
  /\ \E req \in Requests, isArray \in BOOLEAN, msgs \in Batches :
    /\ Post(req, isArray, msgs)
    /\ \/ hasRequests(msgs, 1) = "throws"
       \/ hasRequests(msgs, 1) = "true" /\ ~req.accept /\ FilterThrows(msgs)
    /\ response' = Response(500, "exception", FALSE, <<>>, Undefined)
    /\ pc' = "done"
    /\ UNCHANGED <<env, handlers, writer, sse, timers, clock>>

PostAccepted ==
  /\ pc = "idle"
  /\ \E req \in Requests, isArray \in BOOLEAN, msgs \in Batches :
    /\ Post(req, isArray, msgs)
    /\ hasRequests(msgs, 1) = "false"
    /\ response' = Response(202, "none", FALSE, <<>>, getCorsHeaders(req))
    /\ pc' = "done"
    /\ UNCHANGED <<env, handlers, writer, sse, timers, clock>>

\* handleSSE: the stream is opened, the async block is started and the
\* Response is returned.
PostStream ==
  /\ pc = "idle"
  /\ \E req \in Requests, isArray \in BOOLEAN, msgs \in Batches :
    /\ Post(req, isArray, msgs)
    /\ hasRequests(msgs, 1) = "true"
    /\ req.accept
    /\ handlers' = [k \in 1..Len(msgs) |-> NoHandler]
    /\ writer' = [NoWriter EXCEPT !.state = "open"]
    /\ sse' = [cursor |-> 1, at |-> "loop", failed |-> FALSE]
    /\ response' = Response(200, "stream", FALSE, <<>>, getCorsHeaders(req))
    /\ pc' = "stream"
    /\ UNCHANGED <<env, timers, clock>>

\* The buffered path of handlePost for a body drawn from `bodies`.
PostBufferedFrom(bodies) ==
  /\ pc = "idle"
  /\ \E req \in Requests, isArray \in BOOLEAN, msgs \in bodies :
    /\ Post(req, isArray, msgs)
    /\ hasRequests(msgs, 1) = "true"
    /\ ~req.accept
    /\ ~FilterThrows(msgs)
    /\ handlers' = dispatchAll(msgs, env)
    /\ pc' = "post"
    /\ UNCHANGED <<env, response, writer, sse, timers, clock>>

PostBuffered == PostBufferedFrom(Batches)

\* A buffered POST of one tools/call.
PostQuery == PostBufferedFrom(QueryBodies)

\* The fetch that activation k awaits settles and the activation runs on to
\* its next await or to its return.
FetchSettles ==
  \E k \in 1..Len(handlers), outcome \in Outcomes :
    /\ pc \in {"post", "stream"}
    /\ handlers[k].pc = "fetching"
    /\ LET h == resume(messages[k], env, handlers[k], outcome) IN
       /\ handlers' = [handlers EXCEPT ![k] =
                         IF h.pc = "done"
                         THEN [h EXCEPT !.rank = NumReturned(handlers)]
                         ELSE h]
       /\ sse' = IF pc = "stream" /\ h.pc = "done"
                 THEN [sse EXCEPT !.at = "write"] ELSE sse
    /\ UNCHANGED <<env, pc, request, messages, response, writer, timers, clock>>

\* Promise.all has resolved: the buffered JSON body.
PostRespond ==
  /\ pc = "post"
  /\ \A k \in 1..Len(handlers) : handlers[k].pc \in {"none", "done"}
  /\ LET responses == Responses(handlers) IN
     response' = Response(200, "json", Len(responses) # 1, responses,
                          getCorsHeaders(request))
  /\ pc' = "done"
  /\ UNCHANGED <<env, request, messages, handlers, writer, sse, timers, clock>>

----------------------------------------------------------------------------
(* Event-stream transport: handleSSE *)

SSEAt(where) == pc = "stream" /\ sse.at = where

SSELoopEnd ==
  /\ SSEAt("loop") /\ sse.cursor > Len(messages)
  /\ sse' = [sse EXCEPT !.at = "finally"]
  /\ UNCHANGED <<env, pc, request, messages, handlers, response, writer, timers, clock>>

\* msg.id of a null message: a TypeError inside the try block.
SSEThrows ==
  /\ SSEAt("loop") /\ sse.cursor <= Len(messages)
  /\ messages[sse.cursor].isNull
  /\ sse' = [sse EXCEPT !.at = "catch", !.failed = TRUE]
  /\ UNCHANGED <<env, pc, request, messages, handlers, response, writer, timers, clock>>

SSESkip ==
  /\ SSEAt("loop") /\ sse.cursor <= Len(messages)
  /\ ~messages[sse.cursor].isNull
  /\ messages[sse.cursor].id = Undefined
  /\ sse' = [sse EXCEPT !.cursor = @ + 1]
  /\ UNCHANGED <<env, pc, request, messages, handlers, response, writer, timers, clock>>

SSEDispatch ==
  /\ SSEAt("loop") /\ sse.cursor <= Len(messages)
  /\ ~messages[sse.cursor].isNull
  /\ messages[sse.cursor].id # Undefined
  /\ LET h == handleRequest(messages[sse.cursor], env) IN
     /\ handlers' = [handlers EXCEPT ![sse.cursor] =
                       IF h.pc = "done"
                       THEN [h EXCEPT !.rank = NumReturned(handlers)]
                       ELSE h]
     /\ sse' = [sse EXCEPT !.at = IF h.pc = "done" THEN "write" ELSE "await"]
  /\ UNCHANGED <<env, pc, request, messages, response, writer, timers, clock>>

\* SSEWrite that puts the newest frame in front of the earlier ones.
SSEWriteInFront ==
  /\ SSEAt("write")
  /\ writer' = [writer EXCEPT !.frames = <<handlers[sse.cursor].result>> \o @]
  /\ sse' = [sse EXCEPT !.cursor = @ + 1, !.at = "loop"]
  /\ UNCHANGED <<env, pc, request, messages, handlers, response, timers, clock>>

\* await writer.write(`data: ${JSON.stringify(response)}\n\n`)
SSEWrite ==
  /\ SSEAt("write")
  /\ writer' = [writer EXCEPT !.frames = Append(@, handlers[sse.cursor].result)]
  /\ sse' = [sse EXCEPT !.cursor = @ + 1, !.at = "loop"]
  /\ UNCHANGED <<env, pc, request, messages, handlers, response, timers, clock>>

\* SSECatch that closes the writer itself, before the finally block does.
SSECatchCloses ==
  /\ SSEAt("catch")
  /\ writer' = [writer EXCEPT !.frames = Append(@, InternalError(Undefined, "TypeError")),
                              !.state = "closed", !.closeCalls = @ + 1]
  /\ sse' = [sse EXCEPT !.at = "finally"]
  /\ UNCHANGED <<env, pc, request, messages, handlers, response, timers, clock>>

\* SSECatch that swallows the failure without writing a frame.
SSECatchSilent ==
  /\ SSEAt("catch")
  /\ sse' = [sse EXCEPT !.at = "finally"]
  /\ UNCHANGED <<env, pc, request, messages, handlers, response, writer, timers, clock>>

SSECatch ==
  /\ SSEAt("catch")
  /\ writer' = [writer EXCEPT !.frames = Append(@, InternalError(Undefined, "TypeError"))]
  /\ sse' = [sse EXCEPT !.at = "finally"]
  /\ UNCHANGED <<env, pc, request, messages, handlers, response, timers, clock>>

\* finally { await writer.close() }
SSEFinally ==
  /\ SSEAt("finally")
  /\ writer' = [writer EXCEPT !.state = "closed", !.closeCalls = @ + 1]
  /\ sse' = [sse EXCEPT !.at = "end"]
  /\ pc' = "done"
  /\ UNCHANGED <<env, request, messages, handlers, response, timers, clock>>

----------------------------------------------------------------------------
(* Event-stream transport: handleGet *)

KeepAliveMs == 30000
CloseMs == 300000

GetRefused ==
  /\ pc = "idle"
  /\ \E req \in Requests :
    /\ IsMcp(req) /\ req.method = "GET" /\ ~req.accept
    /\ Answer(req, Response(405, "text", FALSE, <<>>, Undefined))

\* GetOpen without the test of the Accept header.
GetOpenAnyway ==
  /\ pc = "idle"
  /\ \E req \in Requests :
    /\ IsMcp(req) /\ req.method = "GET"
    /\ request' = req
    /\ writer' = [NoWriter EXCEPT !.state = "open", !.lastBeat = clock]
    /\ timers' = [keepAlive |-> [active |-> TRUE, due |-> clock + KeepAliveMs],
                  close |-> [active |-> TRUE, due |-> clock + CloseMs]]
    /\ response' = Response(200, "stream", FALSE, <<>>, getCorsHeaders(req))
    /\ pc' = "get"
    /\ UNCHANGED <<env, messages, handlers, sse, clock>>

\* The stream is opened, setInterval and setTimeout are armed and the
\* Response is returned.
GetOpen ==
  /\ pc = "idle"
  /\ \E req \in Requests :
    /\ pc = "idle"
    /\ IsMcp(req) /\ req.method = "GET" /\ req.accept
    /\ request' = req
    /\ writer' = [NoWriter EXCEPT !.state = "open", !.lastBeat = clock]
    /\ timers' = [keepAlive |-> [active |-> TRUE, due |-> clock + KeepAliveMs],
                  close |-> [active |-> TRUE, due |-> clock + CloseMs]]
    /\ response' = Response(200, "stream", FALSE, <<>>, getCorsHeaders(req))
    /\ pc' = "get"
    /\ UNCHANGED <<env, messages, handlers, sse, clock>>

Due == {timers[t].due : t \in {t \in {"keepAlive", "close"} : timers[t].active}}

\* Time passes up to the next moment at which a timer is due.
Tick ==
  /\ Due # {}
  /\ \A d \in Due : clock < d
  /\ clock' = CHOOSE d \in Due : \A e \in Due : d <= e
  /\ UNCHANGED <<env, pc, request, messages, handlers, response, writer, sse, timers>>

\* KeepAlive armed with setTimeout instead of setInterval: it fires once.
KeepAliveOnce ==
  /\ timers.keepAlive.active /\ timers.keepAlive.due = clock
  /\ writer' = IF writer.state = "open"
               THEN [writer EXCEPT !.heartbeats = @ + 1, !.lastBeat = clock]
               ELSE [writer EXCEPT !.lateWrites = @ + 1]
  /\ timers' = [timers EXCEPT !.keepAlive.active = FALSE]
  /\ UNCHANGED <<env, pc, request, messages, handlers, response, sse, clock>>

\* The setInterval callback: writer.write(': keepalive\n\n'), not awaited.
KeepAlive ==
  /\ timers.keepAlive.active /\ timers.keepAlive.due = clock
  /\ writer' = IF writer.state = "open"
               THEN [writer EXCEPT !.heartbeats = @ + 1, !.lastBeat = clock]
               ELSE [writer EXCEPT !.lateWrites = @ + 1]
  /\ timers' = [timers EXCEPT !.keepAlive.due = @ + KeepAliveMs]
  /\ UNCHANGED <<env, pc, request, messages, handlers, response, sse, clock>>

\* The setTimeout callback: clearInterval(keepAlive); writer.close().
CloseTimeout ==
  /\ timers.close.active /\ timers.close.due = clock
  /\ timers' = [timers EXCEPT !.keepAlive.active = FALSE, !.close.active = FALSE]
  /\ writer' = [writer EXCEPT !.state = IF @ = "open" THEN "closed" ELSE @,
                              !.closeCalls = @ + 1]
  /\ pc' = "done"
  /\ UNCHANGED <<env, request, messages, handlers, response, sse, clock>>

\* The client of the streaming GET goes away: the readable side is cancelled.
\* handleGet registers nothing for this event.
ClientDisconnect ==
  /\ pc = "get"
  /\ writer.state = "open"
  /\ writer' = [writer EXCEPT !.state = "errored"]
  /\ UNCHANGED <<env, pc, request, messages, handlers, response, sse, timers, clock>>

----------------------------------------------------------------------------

Arrive ==
  \/ Preflight \/ MethodNotAllowed \/ Info \/ NotFound
  \/ PostParseError \/ PostThrows \/ PostAccepted \/ PostStream \/ PostBuffered
  \/ GetRefused \/ GetOpen

Run ==
  \/ FetchSettles \/ PostRespond
  \/ SSELoopEnd \/ SSEThrows \/ SSESkip \/ SSEDispatch
  \/ SSEWrite \/ SSECatch \/ SSEFinally
  \/ Tick \/ KeepAlive \/ CloseTimeout

Next == Arrive \/ Run \/ ClientDisconnect

Spec == Init /\ [][Next]_vars

\* The event loop runs every continuation that is ready, a fetch settles, and
\* a timer that is due fires.
LiveSpec == Spec /\ WF_vars(Run)

\* The HTTP call is over and the worker waits for the next one.  The module
\* has no binding besides its functions, so nothing of the call is kept: what
\* remains is env.  Time is counted from the arrival of a call.
NextRequest ==
  /\ pc = "done"
  /\ pc' = "idle"
  /\ request' = NoRequest
  /\ messages' = <<>>
  /\ handlers' = <<>>
  /\ response' = NoResponse
  /\ writer' = NoWriter
  /\ sse' = [cursor |-> 0, at |-> "none", failed |-> FALSE]
  /\ timers' = NoTimers
  /\ clock' = 0
  /\ UNCHANGED env

\* The worker serving one HTTP call after another.
ServeNext == Next \/ NextRequest

ServeSpec == Init /\ [][ServeNext]_vars

\* The query runs: one tools/call per HTTP call, on the registries of the
\* query runs, from its arrival to its buffered response.
QueryInit ==
  /\ env \in QueryRegistries
  /\ pc = "idle"
  /\ request = NoRequest
  /\ messages = <<>>
  /\ handlers = <<>>
  /\ response = NoResponse
  /\ writer = NoWriter
  /\ sse = [cursor |-> 0, at |-> "none", failed |-> FALSE]
  /\ timers = NoTimers
  /\ clock = 0

QueryNext == PostQuery \/ FetchSettles \/ PostRespond

QuerySpec == QueryInit /\ [][QueryNext]_vars

----------------------------------------------------------------------------
(* The single-source worker (MCP_SERVER_CODE of the deploy-mcp command that
   takes one --url): the same router, handlePost, handleGet and handleSSE,
   and a handleRequest that fetches DOCS_URL/raw on every tools/call *)

\* env.DOCS_URL, held as a registry of one url source.
DocsRegistries == {<<SrcUrl("docs", <<HttpOfA, FooOfA, BarOfB>>)>>}

\* What `await fetch(apiUrl)` and `await response.json()` can come to;
\* response.ok is not looked at, so a response counts by its body alone.
DocsOutcomes == {"ok", "throws", "badjson", "notiterable"}

\* The switch on the tool name of the single-source worker.  rawData is the
\* parsed body; isArray tells whether it is an array (filter, find and for-of
\* throw on anything else).
callToolDocs(message, rawData, isArray) ==
  LET id == message.id
      args == [message.args EXCEPT !.source = Undefined]
      noArgs == InternalError(id, "args is undefined")
      notArray == InternalError(id, "rawData is not an array")
      without(rows) ==
        [k \in 1..Len(rows) |->
           [f \in DOMAIN rows[k] \ {"source"} |-> rows[k][f]]]
  IN
  CASE message.tool = "get_raw_api_data" -> ResultEnvelope(id, "content", rawData, <<>>)
    [] message.tool = "search_classes" ->
         IF ~isArray THEN notArray
         ELSE IF ~message.hasArgs /\ rawData # <<>> THEN noArgs
         ELSE TextEnvelope(id, Text("array", <<>>, 0), without(searchClasses(rawData, args)))
    [] message.tool = "get_class" ->
         IF ~isArray THEN notArray
         ELSE IF ~message.hasArgs THEN noArgs
         ELSE LET classData == SelectSeq(rawData, LAMBDA cls : cls.name = args.name) IN
              IF Len(classData) = 0
              THEN TextEnvelope(id, Text("classNotFound", <<args.name>>, 0), <<>>)
              ELSE TextEnvelope(id, Text("object", <<>>, 0), <<classData[1]>>)
    [] message.tool = "search_functions" ->
         IF ~isArray THEN notArray
         ELSE IF ~message.hasArgs /\ rawData # <<>> THEN noArgs
         ELSE TextEnvelope(id, Text("array", <<>>, 0),
                           without(searchFunctions(rawData, args, 1)))
    [] message.tool = "get_function" ->
         IF ~isArray THEN notArray
         ELSE IF ~message.hasArgs THEN noArgs
         ELSE LET targetClass == SelectSeq(rawData, LAMBDA cls : cls.name = args.className) IN
              IF Len(targetClass) = 0
              THEN TextEnvelope(id, Text("classNotFound", <<args.className>>, 0), <<>>)
              ELSE LET func == SelectSeq(Functions(targetClass[1]),
                                         LAMBDA f : f.name = args.functionName) IN
                   IF Len(func) = 0
                   THEN TextEnvelope(id, Text("functionNotFound",
                                              <<args.functionName, args.className>>, 0), <<>>)
                   ELSE TextEnvelope(id, Text("object", <<>>, 0), <<func[1]>>)
    [] OTHER -> UnknownTool(id, message.tool)

\* The `tools` array of the single-source worker.
ToolsDocs ==
  <<"get_raw_api_data", "search_classes", "get_class", "search_functions", "get_function">>

\* handleRequest of the single-source worker up to its await of the fetch.
handleRequestDocs(message) ==
  IF message.method = "initialize"
  THEN Returned(ResultEnvelope(message.id, "initialize", <<>>, <<>>))
  ELSE IF message.method = "tools/list"
  THEN Returned(ResultEnvelope(message.id, "tools", ToolsDocs, <<>>))
  ELSE IF message.method = "tools/call" THEN
    IF ~message.hasParams
    THEN Returned(InternalError(message.id, "params is undefined"))
    ELSE [NoHandler EXCEPT !.pc = "fetchingDocs", !.idx = 1, !.started = {1}]
  ELSE Returned(MethodNotFound(message.id))

\* The activation once the fetch of DOCS_URL/raw has settled: a rejected fetch
\* and a body that is not JSON end in the catch block, whatever the tool.
resumeDocs(message, docs, h, outcome) ==
  LET envelope ==
        CASE outcome = "throws" -> InternalError(message.id, "fetch failed")
          [] outcome = "badjson" -> InternalError(message.id, "Unexpected token")
          [] outcome = "notiterable" -> callToolDocs(message, <<>>, FALSE)
          [] OTHER -> callToolDocs(message, docs[1].data, TRUE)
  IN [Returned(envelope) EXCEPT
        !.allData = IF outcome = "ok" THEN docs[1].data ELSE <<>>,
        !.started = {1}, !.fetched = {1},
        !.failed = IF outcome = "ok" THEN {} ELSE {1}]

\* The messages sent to the single-source worker.
DocsCalls ==
  {ToolCall("id", t, NoArguments) :
     t \in {"get_raw_api_data", "search_classes", "search_functions", "list_sources",
            "delete_everything"}}
  \cup {ToolCall("id", "get_class", [NoArguments EXCEPT !.name = n]) : n \in {"Foo", "Widget"}}
  \cup {ToolCall("id", "get_function",
                  [NoArguments EXCEPT !.className = c, !.functionName = f]) :
          c \in {"Foo", "Bar", "Widget"}, f \in {"render", "nope"}}
  \cup {Message("id", "tools/call", TRUE, t, FALSE) :
          t \in {"get_raw_api_data", "get_class", "search_classes", "delete_everything",
                 Undefined}}
  \cup {Message("id", m, FALSE, Undefined, FALSE) :
          m \in {"initialize", "tools/list", "resources/list", "tools/call"}}

DocsBodies == {WithIds(<<call>>) : call \in DocsCalls}

\* The buffered path of handlePost in the single-source worker.
PostDocs ==
  /\ pc = "idle"
  /\ \E req \in Requests, isArray \in BOOLEAN, msgs \in DocsBodies :
    /\ Post(req, isArray, msgs)
    /\ hasRequests(msgs, 1) = "true"
    /\ ~req.accept
    /\ handlers' = LET hs == [k \in 1..Len(msgs) |->
                                IF msgs[k].id # Undefined THEN handleRequestDocs(msgs[k])
                                ELSE NoHandler]
                   IN [k \in 1..Len(msgs) |->
                         IF hs[k].pc = "done"
                         THEN [hs[k] EXCEPT !.rank = NumReturned(SubSeq(hs, 1, k - 1))]
                         ELSE hs[k]]
    /\ pc' = "post"
    /\ UNCHANGED <<env, response, writer, sse, timers, clock>>

\* The fetch of DOCS_URL/raw that activation k awaits settles and the
\* activation runs to its return.
DocsFetchSettles ==
  \E k \in 1..Len(handlers), outcome \in DocsOutcomes :
    /\ pc = "post"
    /\ handlers[k].pc = "fetchingDocs"
    /\ handlers' = [handlers EXCEPT ![k] =
                      [resumeDocs(messages[k], env, handlers[k], outcome)
                         EXCEPT !.rank = NumReturned(handlers)]]
    /\ UNCHANGED <<env, pc, request, messages, response, writer, sse, timers, clock>>

DocsInit ==
  /\ env \in DocsRegistries
  /\ pc = "idle"
  /\ request = NoRequest
  /\ messages = <<>>
  /\ handlers = <<>>
  /\ response = NoResponse
  /\ writer = NoWriter
  /\ sse = [cursor |-> 0, at |-> "none", failed |-> FALSE]
  /\ timers = NoTimers
  /\ clock = 0

DocsNext == PostDocs \/ DocsFetchSettles \/ PostRespond

DocsSpec == DocsInit /\ [][DocsNext]_vars

----------------------------------------------------------------------------
(* The Mcp-Session-Id header: handlePost reads it and hands it to handleSSE
   and to every handleRequest activation *)

\* request.headers.get('Mcp-Session-Id'): null when the header is absent, an
\* identifier that an earlier initialize has minted, or any other text.
SessionIds == {Undefined, "uuid-1", "arbitrary"}

\* What crypto.randomUUID() can return.
Fresh == {"uuid-2", "uuid-3"}

WithSession(req, sessionId) ==
  [f \in DOMAIN req \cup {"session"} |-> IF f = "session" THEN sessionId ELSE req[f]]

\* The initialize result with its _sessionId member.
WithMinted(envelope, uuid) ==
  [f \in DOMAIN envelope \cup {"_sessionId"} |->
     IF f = "_sessionId" THEN uuid ELSE envelope[f]]

\* handleRequest that refuses a tools/call of a call without a session and
\* answers initialize with the session of the call when it has one.
handleRequestValidating(message, sessionId, sources, uuid) ==
  LET h == handleRequest(message, sources) IN
  IF message.method = "initialize"
  THEN [h EXCEPT !.result = WithMinted(h.result, Or(sessionId, uuid))]
  ELSE IF message.method = "tools/call" /\ sessionId = Undefined
  THEN Returned(ErrorEnvelope(message.id, -32600, "Invalid Request", "session"))
  ELSE h

\* handleRequest(message, sessionId, env): no line of the body reads
\* sessionId; the initialize branch adds _sessionId: crypto.randomUUID().
handleRequestWith(message, sessionId, sources, uuid) ==
  LET h == handleRequest(message, sources) IN
  IF message.method = "initialize"
  THEN [h EXCEPT !.result = WithMinted(h.result, uuid)]
  ELSE h

\* The messages of the calls that carry a session header.
SessionMessages ==
  {Notification}
  \cup {Message("id", m, FALSE, Undefined, FALSE) :
          m \in {Undefined, "initialize", "tools/list", "resources/list"}}
  \cup {Message("id", "tools/call", TRUE, t, TRUE) : t \in {"list_sources", "get_raw_api_data"}}

SessionBodies ==
  {WithIds(shapes) : shapes \in UNION {[1..n -> SessionMessages] : n \in 1..MaxBatch}}

SessionParseError ==
  /\ pc = "idle"
  /\ \E req \in Requests, sessionId \in SessionIds :
    /\ IsMcp(req) /\ req.method = "POST"
    /\ Answer([WithSession(req, sessionId) EXCEPT !.body = "unparseable"],
              Response(400, "json", FALSE,
                       <<ErrorEnvelope(Undefined, -32700, "Parse error", Undefined)>>,
                       getCorsHeaders(req)))

SessionAccepted ==
  /\ pc = "idle"
  /\ \E req \in Requests, sessionId \in SessionIds, isArray \in BOOLEAN, msgs \in SessionBodies :
    /\ Post(WithSession(req, sessionId), isArray, msgs)
    /\ hasRequests(msgs, 1) = "false"
    /\ response' = Response(202, "none", FALSE, <<>>, getCorsHeaders(req))
    /\ pc' = "done"
    /\ UNCHANGED <<env, handlers, writer, sse, timers, clock>>

SessionStream ==
  /\ pc = "idle"
  /\ \E req \in Requests, sessionId \in SessionIds, isArray \in BOOLEAN, msgs \in SessionBodies :
    /\ Post(WithSession(req, sessionId), isArray, msgs)
    /\ hasRequests(msgs, 1) = "true"
    /\ req.accept
    /\ handlers' = [k \in 1..Len(msgs) |-> NoHandler]
    /\ writer' = [NoWriter EXCEPT !.state = "open"]
    /\ sse' = [cursor |-> 1, at |-> "loop", failed |-> FALSE]
    /\ response' = Response(200, "stream", FALSE, <<>>, getCorsHeaders(req))
    /\ pc' = "stream"
    /\ UNCHANGED <<env, timers, clock>>

\* await handleRequest(msg, sessionId, env) in the loop of handleSSE.
SessionDispatch ==
  /\ SSEAt("loop") /\ sse.cursor <= Len(messages)
  /\ messages[sse.cursor].id # Undefined
  /\ \E uuid \in Fresh :
       LET h == handleRequestWith(messages[sse.cursor], request.session, env, uuid) IN
       /\ handlers' = [handlers EXCEPT ![sse.cursor] =
                         IF h.pc = "done"
                         THEN [h EXCEPT !.rank = NumReturned(handlers)]
                         ELSE h]
       /\ sse' = [sse EXCEPT !.at = IF h.pc = "done" THEN "write" ELSE "await"]
  /\ UNCHANGED <<env, pc, request, messages, response, writer, timers, clock>>

\* messages.filter(...).map(msg => handleRequest(msg, sessionId, env))
SessionBuffered ==
  /\ pc = "idle"
  /\ \E req \in Requests, sessionId \in SessionIds, isArray \in BOOLEAN, msgs \in SessionBodies :
    /\ Post(WithSession(req, sessionId), isArray, msgs)
    /\ hasRequests(msgs, 1) = "true"
    /\ ~req.accept
    /\ \E uuids \in [1..Len(msgs) -> Fresh] :
         handlers' =
           LET hs == [k \in 1..Len(msgs) |->
                        IF msgs[k].id # Undefined
                        THEN handleRequestWith(msgs[k], sessionId, env, uuids[k])
                        ELSE NoHandler]
           IN [k \in 1..Len(msgs) |->
                 IF hs[k].pc = "done"
                 THEN [hs[k] EXCEPT !.rank = NumReturned(SubSeq(hs, 1, k - 1))]
                 ELSE hs[k]]
    /\ pc' = "post"
    /\ UNCHANGED <<env, response, writer, sse, timers, clock>>

SessionNext ==
  \/ SessionParseError \/ SessionAccepted \/ SessionStream \/ SessionBuffered
  \/ SessionDispatch \/ FetchSettles \/ PostRespond
  \/ SSELoopEnd \/ SSESkip \/ SSEWrite \/ SSEFinally

SessionSpec == Init /\ [][SessionNext]_vars

\* Either worker, as deployed: the multi-source worker when the environment
\* holds DOC_SOURCES, the single-source worker when it holds DOCS_URL.
SingleSource == env \in DocsRegistries

DeployedInit ==
  /\ env \in QueryRegistries \cup DocsRegistries
  /\ pc = "idle"
  /\ request = NoRequest
  /\ messages = <<>>
  /\ handlers = <<>>
  /\ response = NoResponse
  /\ writer = NoWriter
  /\ sse = [cursor |-> 0, at |-> "none", failed |-> FALSE]
  /\ timers = NoTimers
  /\ clock = 0

DeployedNext ==
  \/ ~SingleSource /\ PostQuery
  \/ ~SingleSource /\ FetchSettles
  \/ SingleSource /\ PostDocs
  \/ SingleSource /\ DocsFetchSettles
  \/ PostRespond

DeployedSpec == DeployedInit /\ [][DeployedNext]_vars

----------------------------------------------------------------------------
(* Properties *)

Last(seq) == seq[Len(seq)]

\* The messages of the body that carry an id, in input order.
IdMessages == SelectSeq(messages, LAMBDA m : m.id # Undefined)

\* The messages with an id that precede the first null element of the body.
FirstNull ==
  IF \E i \in 1..Len(messages) : messages[i].isNull
  THEN CHOOSE i \in 1..Len(messages) :
         messages[i].isNull /\ \A j \in 1..(i - 1) : ~messages[j].isNull
  ELSE Len(messages) + 1

Served == SelectSeq(SubSeq(messages, 1, FirstNull - 1), LAMBDA m : m.id # Undefined)

\* Envelope e is an answer to message m: it carries m's id and is one of the
\* envelopes m's method can be answered with.
Answers(e, m) ==
  /\ e.id = m.id
  /\ CASE m.method = "initialize" -> e.kind = "result" /\ e.detail = "initialize"
       [] m.method = "tools/list" -> e.kind = "result" /\ e.detail = "tools"
       [] m.method = "tools/call" ->
            \/ e.kind = "result" /\ e.detail = "content"
            \/ e.kind = "error" /\ e.code = -32603
            \/ e.kind = "error" /\ e.code = -32601 /\ e.detail = m.tool
       [] OTHER -> e.kind = "error" /\ e.code = -32601 /\ e.message = "Method not found"

BufferedDone == pc = "done" /\ response.status = 200 /\ response.body = "json"

Streamed == request.method = "POST" /\ response.body = "stream"

StreamedDone == pc = "done" /\ Streamed

\* C1: every envelope that handleRequest returns for a message with an id
\* carries that id, on the result path and on the -32601 and -32603 paths.
C1_EnvelopeEchoesId ==
  \A k \in 1..Len(handlers) :
    handlers[k].pc = "done" =>
      /\ messages[k].id # Undefined
      /\ handlers[k].result.kind \in {"result", "error"}
      /\ handlers[k].result.id = messages[k].id

C1_Witness ==
  \E j, k \in 1..Len(handlers) :
    /\ handlers[j].pc = "done" /\ handlers[k].pc = "done"
    /\ handlers[j].result.code = -32601 /\ handlers[j].result.id = "id1"
    /\ handlers[k].result.code = -32603 /\ handlers[k].result.id = "id2"

\* C2: a POST whose parsed body holds only messages without an id is answered
\* with 202 and no body, whatever the batch size and the Accept header, and
\* no handleRequest activation and no stream is created for it.
C2_NotificationsAccepted ==
  ( /\ pc = "done"
    /\ request.method = "POST"
    /\ request.body \in {"single", "array"}
    /\ \A i \in 1..Len(messages) : ~messages[i].isNull /\ messages[i].id = Undefined )
  => /\ response.status = 202
     /\ response.body = "none"
     /\ response.envelopes = <<>>
     /\ handlers = <<>>
     /\ writer.state = "none"

C2_Witness ==
  /\ pc = "done" /\ response.status = 202
  /\ request.accept
  /\ Len(messages) = 2
  /\ \A i \in 1..Len(messages) : ~messages[i].isNull /\ messages[i].id = Undefined

\* C3 as claimed: the buffered body is a single envelope when the batch has
\* one message and an array when it has more, in input order.
C3_AsClaimed ==
  BufferedDone =>
    /\ Len(messages) = 1 => ~response.array
    /\ Len(messages) > 1 => response.array
    /\ \A k \in 1..Len(response.envelopes) :
         k <= Len(IdMessages) /\ Answers(response.envelopes[k], IdMessages[k])

\* C3 as amended: the buffered body is a single envelope when exactly one
\* message of the body carries an id and an array when more than one does;
\* there is one envelope per message with an id, and the k-th envelope answers
\* the k-th such message, in whatever order the activations returned.
C3_BufferedBody ==
  BufferedDone =>
    /\ response.array <=> Len(IdMessages) > 1
    /\ Len(response.envelopes) = Len(IdMessages)
    /\ \A k \in 1..Len(IdMessages) : Answers(response.envelopes[k], IdMessages[k])

C3_Witness ==
  /\ BufferedDone
  /\ Len(messages) = 2 /\ Len(response.envelopes) = 2
  /\ response.envelopes[1].id # response.envelopes[2].id
  /\ handlers[1].rank = 1 /\ handlers[2].rank = 0

C5_ClosedExactlyOnce ==
  /\ [](writer.closeCalls <= 1)
  /\ [](writer.state = "open" => <>(writer.closeCalls = 1))

C5_Witness ==
  /\ request.method = "GET"
  /\ writer.state = "closed" /\ writer.closeCalls = 1
  /\ clock = CloseMs

\* C6: once the client of a streaming GET has disconnected, neither the
\* heartbeat timer nor the close timer is pending and no heartbeat write is
\* attempted.
C6_DisconnectClearsTimers ==
  (request.method = "GET" /\ writer.state = "errored") =>
    /\ ~timers.keepAlive.active
    /\ ~timers.close.active
    /\ writer.lateWrites = 0

\* C7: while a streaming GET channel is open, the last heartbeat (or the
\* opening) is at most 30000 ms old and the channel is at most 300000 ms old;
\* once it is closed the heartbeat timer is cleared and no heartbeat has been
\* written to it since.
C7_HeartbeatAndTimeout ==
  /\ (request.method = "GET" /\ writer.state = "open") =>
       /\ clock - writer.lastBeat <= 30000
       /\ clock <= 300000
  /\ (request.method = "GET" /\ writer.state = "closed") =>
       /\ ~timers.keepAlive.active
       /\ writer.lateWrites = 0
       /\ clock = 300000

C7_Witness ==
  /\ request.method = "GET"
  /\ writer.state = "closed"
  /\ writer.heartbeats = 10
  /\ writer.lastBeat = clock

\* C8: when the writer of a streamed POST is closed after a failure, the
\* failure has been written as a -32603 frame first: a throw in the loop of
\* handleSSE as the last frame, without id, and a failure inside
\* handleRequest as the frame of that request.
C8_FailureSignalled ==
  (Streamed /\ writer.closeCalls > 0) =>
    /\ sse.failed =>
         /\ writer.frames # <<>>
         /\ Last(writer.frames).kind = "error"
         /\ Last(writer.frames).code = -32603
         /\ Last(writer.frames).id = Undefined
    /\ \A k \in 1..Len(handlers) :
         (handlers[k].pc = "done" /\ handlers[k].result.code = -32603) =>
           \E j \in 1..Len(writer.frames) : writer.frames[j] = handlers[k].result

C8_Witness ==
  /\ StreamedDone
  /\ sse.failed
  /\ writer.closeCalls = 1
  /\ Len(writer.frames) = 2
  /\ writer.frames[1].code = -32603 /\ writer.frames[1].id = "id1"
  /\ writer.frames[2].code = -32603 /\ writer.frames[2].id = Undefined

\* The sources of the registry that fetchAllSources fetches.
Remote(sources) ==
  {i \in 1..Len(sources) : ~sources[i].embedded /\ HasRawUrl(sources[i])}

\* The messages whose handling runs fetchAllSources.
Aggregates(m) == m.method = "tools/call" /\ m.hasParams /\ m.tool # "list_sources"

RECURSIVE Contributed(_, _, _)
Contributed(sources, failed, i) ==
  IF i > Len(sources) THEN <<>>
  ELSE (IF i \in failed \/ (~sources[i].embedded /\ ~HasRawUrl(sources[i]))
        THEN <<>>
        ELSE [k \in 1..Len(sources[i].data) |->
                <<sources[i].data[k].name, sources[i].name>>])
       \o Contributed(sources, failed, i + 1)

NameAndSource(data) == [k \in 1..Len(data) |-> <<data[k].name, data[k]._source>>]

\* C10: whichever fetches fail (rejected, non-ok status, body that cannot be
\* parsed or iterated), aggregation returns, and the corpus it returns holds
\* no record of a failed source and all records of every other source.
C10_PartialFailureTolerated ==
  \A k \in 1..Len(handlers) :
    ( /\ handlers[k].pc = "done"
      /\ messages[k].method = "tools/call" /\ messages[k].hasParams
      /\ messages[k].tool = "get_raw_api_data" /\ messages[k].hasArgs )
    => /\ handlers[k].result.kind = "result"
       /\ NameAndSource(handlers[k].result.data)
            = Contributed(env, handlers[k].failed, 1)

C10_Witness ==
  \E k \in 1..Len(handlers) :
    /\ handlers[k].pc = "done"
    /\ Len(env) = 3
    /\ handlers[k].failed = {2}
    /\ handlers[k].fetched = {1, 2}
    /\ NameAndSource(handlers[k].result.data)
         = <<<<"Foo", "A">>, <<"Bar", "A">>, <<"Baz", "C">>>>

\* The place a record of the corpus comes from: the position of its source in
\* the registry and its position in that source's data (for a registry whose
\* source names are distinct and whose sources do not repeat a class name).
Place(cls) ==
  LET i == CHOOSE i \in 1..Len(env) : env[i].name = cls._source
      k == CHOOSE k \in 1..Len(env[i].data) : env[i].data[k].name = cls.name
  IN <<i, k>>

InRegistryOrder(data) ==
  \A p, q \in 1..Len(data) :
    p < q => \/ Place(data[p])[1] < Place(data[q])[1]
             \/ /\ Place(data[p])[1] = Place(data[q])[1]
                /\ Place(data[p])[2] < Place(data[q])[2]

\* C11: at every moment of an aggregation run, and in the corpus it returns,
\* the records of an earlier source of the registry come before those of a
\* later one and the records of one source keep the order they have in that
\* source, whichever fetches succeed and whenever they settle.
C11_RegistryOrder ==
  \A k \in 1..Len(handlers) :
    /\ InRegistryOrder(handlers[k].allData)
    /\ ( /\ handlers[k].pc = "done"
         /\ handlers[k].result.kind = "result"
         /\ messages[k].tool = "get_raw_api_data" )
       => InRegistryOrder(handlers[k].result.data)

C11_Witness ==
  \E k \in 1..Len(handlers) :
    /\ handlers[k].pc = "done"
    /\ handlers[k].failed = {}
    /\ Len(handlers[k].result.data) = 4
    /\ handlers[k].result.data[3]._source = "B"
    /\ handlers[k].result.data[4]._source = "C"

\* The locator a source of the registry is configured with: the repository of
\* an embedded source, the url or the raw url of a remote one.
Locator(source) ==
  CHOOSE u \in {source.github, source.url, source.raw} : u # Undefined

\* Record cls of the corpus is entry j of source i with nothing but _source
\* and _sourceUrl set, to the source's name and locator.
StampedFrom(cls, i, j) ==
  /\ cls._source = env[i].name
  /\ cls._sourceUrl = Locator(env[i])
  /\ cls.name = env[i].data[j].name
  /\ cls.tags = env[i].data[j].tags
  /\ cls.desc = env[i].data[j].desc
  /\ cls.functions = env[i].data[j].functions

AllStamped(data) ==
  \A p \in 1..Len(data) :
    \E i \in 1..Len(env) : \E j \in 1..Len(env[i].data) : StampedFrom(data[p], i, j)

\* C12: every record that aggregation has merged carries the name of its
\* registry source as _source and that source's locator as _sourceUrl, for
\* embedded and fetched sources, also when the entry had a _source or a
\* _sourceUrl of its own; the other fields are those of the entry.
C12_SourceStamped ==
  \A k \in 1..Len(handlers) :
    /\ AllStamped(handlers[k].allData)
    /\ ( /\ handlers[k].pc = "done"
         /\ handlers[k].result.kind = "result"
         /\ messages[k].tool = "get_raw_api_data" )
       => AllStamped(handlers[k].result.data)

C12_Witness ==
  \E k \in 1..Len(handlers) :
    /\ handlers[k].pc = "done"
    /\ Len(handlers[k].result.data) = 4
    /\ env[1].data[2]._sourceUrl = "https://elsewhere.example/"
    /\ handlers[k].result.data[2]._sourceUrl = "https://docs.example/"
    /\ env[3].data[1]._source = "Elsewhere"
    /\ handlers[k].result.data[4]._source = "C"
    /\ handlers[k].result.data[4]._sourceUrl = "owner/repo"

\* The activations that have run tool `name` with arguments on a registry
\* that parses.
Ran(k, name) ==
  /\ handlers[k].pc = "done"
  /\ env # NotJson
  /\ messages[k].method = "tools/call" /\ messages[k].hasParams
  /\ messages[k].tool = name /\ messages[k].hasArgs

\* The records of the corpus with this name, of this source when one is given
\* (an empty string is no source).
Matching(rawData, name, source) ==
  SelectSeq(rawData, LAMBDA cls :
    cls.name = name /\ (Truthy(source) => cls._source = source))

\* C13: get_class answers by the number of records of the corpus that have
\* the name (and the source, when one is given), always with a result
\* envelope: none, a not-found text that names the class; one, that record
\* in full; several, a text with their number and the list of their sources.
C13_GetClassByMatchCount ==
  \A k \in 1..Len(handlers) :
    Ran(k, "get_class") =>
      LET e == handlers[k].result
          args == messages[k].args
          matches == Matching(handlers[k].allData, args.name, args.source)
      IN /\ e.kind = "result" /\ e.id = messages[k].id
         /\ Len(matches) = 0 =>
              e.text = Text("classNotFound", <<args.name>>, 0) /\ e.data = <<>>
         /\ Len(matches) = 1 =>
              e.text.form = "object" /\ e.data = matches
         /\ Len(matches) > 1 =>
              /\ e.text.form = "ambiguous"
              /\ e.text.count = Len(matches)
              /\ e.text.about = <<args.name>>
              /\ Len(e.data) = Len(matches)
              /\ \A j \in 1..Len(matches) : e.data[j].source = matches[j]._source

C13_Witness ==
  \E k \in 1..Len(handlers) :
    /\ Ran(k, "get_class")
    /\ handlers[k].result.text.form = "ambiguous"
    /\ handlers[k].result.text.count = 2
    /\ handlers[k].result.data[1].source = "A"
    /\ handlers[k].result.data[2].source = "B"

\* C14: no two records of a corpus that aggregation has merged agree in name
\* and _source, and get_class called with a source answers with a not-found
\* text or with one record, never with a list of candidates.
C14_NameAndSourceIdentify ==
  \A k \in 1..Len(handlers) :
    /\ \A p, q \in 1..Len(handlers[k].allData) :
         ( /\ handlers[k].allData[p].name = handlers[k].allData[q].name
           /\ handlers[k].allData[p]._source = handlers[k].allData[q]._source )
         => p = q
    /\ (Ran(k, "get_class") /\ Truthy(messages[k].args.source)) =>
         handlers[k].result.text.form \in {"classNotFound", "object"}

\* The candidate classes of get_function that have a function of this name.
Owners(rawData, args) ==
  SelectSeq(Matching(rawData, args.className, args.source), LAMBDA cls :
    \E j \in 1..Len(Functions(cls)) : Functions(cls)[j].name = args.functionName)

\* Entry f of a get_function answer is a function of class cls with the
\* name asked for, annotated with the class and its source.
Annotates(f, cls, functionName) ==
  /\ f.name = functionName
  /\ f._className = cls.name
  /\ f._source = cls._source
  /\ \E j \in 1..Len(Functions(cls)) :
       /\ Functions(cls)[j].name = f.name
       /\ Functions(cls)[j].function_type = f.function_type
       /\ Functions(cls)[j].desc = f.desc

\* C15: get_function always answers with a result envelope: a class-not-found
\* text naming the class when no record has the class name (and source), a
\* function-not-found text when no candidate has the function, the function
\* annotated with class and source when one candidate has it, and the list
\* of all of them, each annotated, when several have it.
C15_GetFunctionByMatchCount ==
  \A k \in 1..Len(handlers) :
    Ran(k, "get_function") =>
      LET e == handlers[k].result
          args == messages[k].args
          candidates == Matching(handlers[k].allData, args.className, args.source)
          owners == Owners(handlers[k].allData, args)
      IN /\ e.kind = "result" /\ e.id = messages[k].id
         /\ Len(candidates) = 0 =>
              e.text = Text("classNotFound", <<args.className>>, 0) /\ e.data = <<>>
         /\ (Len(candidates) > 0 /\ Len(owners) = 0) =>
              /\ e.text = Text("functionNotFound", <<args.functionName, args.className>>, 0)
              /\ e.data = <<>>
         /\ Len(owners) > 0 =>
              /\ e.text.form = (IF Len(owners) = 1 THEN "object" ELSE "array")
              /\ Len(e.data) = Len(owners)
              /\ \A j \in 1..Len(owners) : Annotates(e.data[j], owners[j], args.functionName)

C15_Witness ==
  \E k \in 1..Len(handlers) :
    /\ Ran(k, "get_function")
    /\ handlers[k].result.text.form = "array"
    /\ Len(handlers[k].result.data) = 2
    /\ handlers[k].result.data[1]._source = "A"
    /\ handlers[k].result.data[2]._source = "B"
    /\ handlers[k].result.data[2].function_type = "event"

\* C16: search_classes answers with the records of the corpus, in corpus
\* order, whose name contains the query whatever the case of the letters
\* (when a query is given), whose tags hold the tag (when a tag is given) and
\* whose _source is the source (when a source is given), each as name, tags,
\* description and source.
C16_SearchClasses ==
  \A k \in 1..Len(handlers) :
    Ran(k, "search_classes") =>
      LET e == handlers[k].result
          args == messages[k].args
          hits == SelectSeq(handlers[k].allData, LAMBDA cls :
                    /\ Truthy(args.query) => ContainsIgnoringCase(cls.name, args.query)
                    /\ Truthy(args.tag) => (cls.tags.defined /\ args.tag \in cls.tags.items)
                    /\ Truthy(args.source) => cls._source = args.source)
      IN /\ e.kind = "result" /\ e.text.form = "array"
         /\ Len(e.data) = Len(hits)
         /\ \A j \in 1..Len(hits) :
              e.data[j] = [name |-> hits[j].name, tags |-> hits[j].tags,
                           description |-> hits[j].desc, source |-> hits[j]._source]

C16_Witness ==
  \E k \in 1..Len(handlers) :
    /\ Ran(k, "search_classes")
    /\ messages[k].args.query = "OO"
    /\ messages[k].args.tag = "ui"
    /\ Len(handlers[k].allData) = 4
    /\ Len(handlers[k].result.data) = 1
    /\ handlers[k].result.data[1].name = "Foo"
    /\ handlers[k].result.data[1].source = "A"

RECURSIVE Flatten(_)
Flatten(seqs) == IF seqs = <<>> THEN <<>> ELSE Head(seqs) \o Flatten(Tail(seqs))

\* C17: search_functions answers with the functions, in corpus order and
\* then in the order of their class, of the classes that have the source and
\* the class name asked for (when given) whose name contains the query
\* whatever the case of the letters (when given), each as class name, name,
\* type, description and source; a class without a functions list adds
\* nothing and the answer is still a result.
C17_SearchFunctions ==
  \A k \in 1..Len(handlers) :
    Ran(k, "search_functions") =>
      LET e == handlers[k].result
          args == messages[k].args
          rawData == handlers[k].allData
          passes(cls) ==
            /\ Truthy(args.source) => cls._source = args.source
            /\ Truthy(args.className) => cls.name = args.className
          hitsOf(cls) ==
            LET hits == SelectSeq(Functions(cls), LAMBDA func :
                          Truthy(args.query) => ContainsIgnoringCase(func.name, args.query))
            IN [j \in 1..Len(hits) |->
                  [className |-> cls.name, name |-> hits[j].name,
                   type |-> hits[j].function_type, description |-> hits[j].desc,
                   source |-> cls._source]]
      IN /\ e.kind = "result" /\ e.text.form = "array"
         /\ e.data = Flatten([i \in 1..Len(rawData) |->
                                IF passes(rawData[i]) THEN hitsOf(rawData[i]) ELSE <<>>])

C17_Witness ==
  \E k \in 1..Len(handlers) :
    /\ Ran(k, "search_functions")
    /\ messages[k].args.query = "RE"
    /\ messages[k].args.className = Undefined
    /\ \E i \in 1..Len(handlers[k].allData) : ~handlers[k].allData[i].functions.defined
    /\ Len(handlers[k].result.data) = 3
    /\ handlers[k].result.data[1].name = "Read"
    /\ handlers[k].result.data[2].name = "render"
    /\ handlers[k].result.data[3].source = "B"

\* The names of the tools that tools/list announces.
Catalogue ==
  {"list_sources", "get_raw_api_data", "search_classes", "get_class",
   "search_functions", "get_function"}

\* C18: a tools/call that names a tool outside the catalogue is answered
\* with the error envelope -32601 'Unknown tool: <name>', whatever the
\* registry is and whatever becomes of the fetches.
C18_UnknownToolRejected ==
  \A k \in 1..Len(handlers) :
    ( /\ handlers[k].pc = "done"
      /\ messages[k].method = "tools/call" /\ messages[k].hasParams
      /\ messages[k].tool # Undefined /\ messages[k].tool \notin Catalogue
      /\ env # NotJson )
    => /\ handlers[k].result.kind = "error"
       /\ handlers[k].result.code = -32601
       /\ handlers[k].result.message = "Unknown tool: "
       /\ handlers[k].result.detail = messages[k].tool
       /\ handlers[k].result.id = messages[k].id

\* The handling of message k has thrown inside the try block of
\* handleRequest: params is missing, DOC_SOURCES does not parse, or
\* `arguments` is missing and the tool has read a property of it.
Failed(k) ==
  /\ messages[k].method = "tools/call"
  /\ \/ ~messages[k].hasParams
     \/ env = NotJson
     \/ /\ ~messages[k].hasArgs
        /\ \/ messages[k].tool \in {"get_raw_api_data", "get_class", "get_function"}
           \/ /\ messages[k].tool \in {"search_classes", "search_functions"}
              /\ handlers[k].allData # <<>>

\* C19: a request whose handling throws is answered with the envelope
\* -32603 'Internal error' that carries the request's id and the message
\* of the failure as data, and no other request is; the HTTP call that
\* carried it is answered with 200 and that envelope, in the buffered body
\* or as a frame of the stream.
C19_FailureBecomesInternalError ==
  /\ \A k \in 1..Len(handlers) :
       handlers[k].pc = "done" =>
         /\ Failed(k) =>
              /\ handlers[k].result.kind = "error"
              /\ handlers[k].result.code = -32603
              /\ handlers[k].result.message = "Internal error"
              /\ handlers[k].result.detail # Undefined
              /\ handlers[k].result.id = messages[k].id
         /\ ~Failed(k) => handlers[k].result.code # -32603
  /\ (pc = "done" /\ \E k \in 1..Len(handlers) : handlers[k].pc = "done" /\ Failed(k)) =>
       /\ response.status = 200
       /\ \E k \in 1..Len(handlers) :
            /\ handlers[k].pc = "done" /\ Failed(k)
            /\ \/ \E j \in 1..Len(response.envelopes) :
                    response.envelopes[j] = handlers[k].result
               \/ \E j \in 1..Len(writer.frames) : writer.frames[j] = handlers[k].result

C19_Witness ==
  /\ pc = "done"
  /\ env = NotJson
  /\ messages[1].hasParams /\ messages[1].tool = "list_sources"
  /\ response.status = 200
  /\ response.envelopes = <<InternalError("id1", "Unexpected token")>>

\* C20: a request whose method is not initialize, tools/list or tools/call
\* is answered with the error envelope -32601 'Method not found', and its
\* handling starts no fetch and merges no record.
C20_MethodNotFound ==
  \A k \in 1..Len(handlers) :
    ( /\ handlers[k].pc # "none"
      /\ messages[k].method \notin {"initialize", "tools/list", "tools/call"} )
    => /\ handlers[k].pc = "done"
       /\ handlers[k].result.kind = "error"
       /\ handlers[k].result.code = -32601
       /\ handlers[k].result.message = "Method not found"
       /\ handlers[k].result.id = messages[k].id
       /\ handlers[k].started = {} /\ handlers[k].fetched = {}
       /\ handlers[k].allData = <<>>

C20_Witness ==
  /\ BufferedDone
  /\ Len(messages) = 2
  /\ messages[1].tool = "get_raw_api_data" /\ handlers[1].fetched = {1, 2}
  /\ messages[2].method = "resources/list"
  /\ handlers[2].started = {}
  /\ response.envelopes[2].code = -32601
  /\ response.envelopes[2].message = "Method not found"

\* C21: a POST to /mcp whose body request.json() rejects is answered with
\* status 400 and the one envelope -32700 'Parse error' (without id),
\* whatever the Accept header; no message is taken from it, no handler is
\* run and no stream is opened.
C21_ParseError ==
  (request.method = "POST" /\ request.body = "unparseable") =>
    /\ pc = "done"
    /\ response.status = 400
    /\ response.body = "json" /\ ~response.array
    /\ Len(response.envelopes) = 1
    /\ response.envelopes[1].kind = "error"
    /\ response.envelopes[1].code = -32700
    /\ response.envelopes[1].message = "Parse error"
    /\ response.envelopes[1].id = Undefined
    /\ messages = <<>> /\ handlers = <<>>
    /\ writer.state = "none"

C21_Witness ==
  /\ request.method = "POST" /\ request.body = "unparseable"
  /\ request.accept
  /\ response.status = 400
  /\ response.envelopes[1].code = -32700

\* The envelopes a POST has returned so far, in its body and on its stream.
EnvelopesReturned == response.envelopes \o writer.frames

ParsedPost == request.method = "POST" /\ request.body \in {"single", "array"}

HasNull == \E i \in 1..Len(messages) : messages[i].isNull

C23_CorsOnEveryResponse ==
  (response.status # 0 /\ response.body # "exception") =>
    response.cors = (IF request.origin # Undefined THEN request.origin ELSE "*")

\* C24 as claimed: an OPTIONS request to any path is answered with a CORS
\* preflight response with no body.
C24_AsClaimed ==
  request.method = "OPTIONS" =>
    /\ response.status = 204
    /\ response.body = "none"
    /\ response.cors = (IF request.origin # Undefined THEN request.origin ELSE "*")

\* C24 as amended: an OPTIONS request to /mcp or /mcp/ is answered at once
\* with status 204, no body and the CORS headers; an OPTIONS request to any
\* other path is answered with 404 and a text body, without CORS headers.
C24_PreflightOnMcp ==
  request.method = "OPTIONS" =>
    /\ pc = "done"
    /\ messages = <<>> /\ handlers = <<>> /\ writer.state = "none"
    /\ IF request.path \in {"/mcp", "/mcp/"}
       THEN /\ response.status = 204
            /\ response.body = "none"
            /\ response.cors = (IF request.origin # Undefined THEN request.origin ELSE "*")
       ELSE /\ response.status = 404
            /\ response.body = "text"
            /\ response.cors = Undefined

C24_Witness ==
  /\ request.method = "OPTIONS" /\ request.path = "/mcp/"
  /\ request.origin = "https://app.example"
  /\ response.status = 204 /\ response.cors = "https://app.example"

\* C25: GET /mcp opens a streaming channel if and only if the Accept header
\* includes text/event-stream; otherwise the response is 405 and no channel
\* and no timer is created.
C25_GetStreamIffAccept ==
  (request.method = "GET" /\ request.path \in {"/mcp", "/mcp/"}) =>
    /\ request.accept <=> writer.state # "none"
    /\ request.accept =>
         /\ response.status = 200 /\ response.body = "stream"
         /\ pc = "get" => timers.keepAlive.active /\ timers.close.active
    /\ ~request.accept =>
         /\ pc = "done"
         /\ response.status = 405 /\ response.body = "text"
         /\ writer = NoWriter
         /\ timers = NoTimers

C25_Witness ==
  /\ request.method = "GET" /\ request.path = "/mcp" /\ request.accept
  /\ response.status = 200 /\ response.body = "stream"
  /\ writer.state = "open" /\ writer.heartbeats = 1
  /\ timers.close.active

ListedNames(k) == {handlers[k].result.data[j] : j \in 1..Len(handlers[k].result.data)}

\* C26 as claimed: tools/list returns the catalogue of exactly six tools.
C26_AsClaimed ==
  \A k \in 1..Len(handlers) :
    (handlers[k].pc = "done" /\ messages[k].method = "tools/list") =>
      /\ handlers[k].result.kind = "result"
      /\ Len(handlers[k].result.data) = 6
      /\ ListedNames(k) = {"list_sources", "get_raw_api_data", "search_classes",
                           "get_class", "search_functions", "get_function"}

\* C26 as amended: tools/list of the multi-source worker returns six tools,
\* list_sources, get_raw_api_data, search_classes, get_class, search_functions
\* and get_function; tools/list of the single-source worker returns the last
\* five of them.  In both workers a tools/call with a listed name is never
\* answered 'Unknown tool', and a tools/call with any other name is answered
\* with an error envelope, 'Unknown tool' when nothing failed before the
\* dispatch.
C26_CatalogueIsDispatched ==
  LET five == {"get_raw_api_data", "search_classes", "get_class", "search_functions",
               "get_function"}
      listed == IF SingleSource THEN five ELSE five \cup {"list_sources"}
  IN
  \A k \in 1..Len(handlers) :
    handlers[k].pc = "done" =>
      /\ messages[k].method = "tools/list" =>
           /\ handlers[k].result.kind = "result"
           /\ Len(handlers[k].result.data) = Cardinality(listed)
           /\ ListedNames(k) = listed
      /\ (messages[k].method = "tools/call" /\ messages[k].hasParams) =>
           IF messages[k].tool \in listed
           THEN handlers[k].result.code # -32601
           ELSE /\ handlers[k].result.kind = "error"
                /\ handlers[k].result.code \in {-32601, -32603}
                /\ (handlers[k].failed = {} /\ env # NotJson) =>
                     handlers[k].result.code = -32601

C26_Witness ==
  /\ SingleSource
  /\ pc = "done" /\ response.status = 200
  /\ messages[1].method = "tools/list"
  /\ Len(response.envelopes[1].data) = 5
  /\ response.envelopes[1].data[1] = "get_raw_api_data"

\* C27: list_sources returns one entry per configured source, in registry
\* order, each with the name of the source and a defined locator, whether
\* the source has a url, a raw-data url or an embedded snapshot.
C27_ListSources ==
  \A k \in 1..Len(handlers) :
    ( /\ handlers[k].pc = "done"
      /\ messages[k].method = "tools/call" /\ messages[k].hasParams
      /\ messages[k].tool = "list_sources" )
    => /\ handlers[k].result.kind = "result"
       /\ Len(handlers[k].result.sources) = Len(env)
       /\ \A i \in 1..Len(env) :
            /\ handlers[k].result.sources[i].name = env[i].name
            /\ handlers[k].result.sources[i].url # Undefined

\* C28: answering tools/call list_sources and answering GET / issues no fetch
\* to any source; every other tools/call runs one full aggregation, a fetch
\* of every remote source, before it is answered.
C28_AggregationOnlyWhereNeeded ==
  /\ (request.method = "GET" /\ request.path = "/") =>
       /\ pc = "done" /\ response.status = 200 /\ response.body = "info"
       /\ handlers = <<>>
  /\ \A k \in 1..Len(handlers) :
       (messages[k].method = "tools/call" /\ messages[k].hasParams) =>
         IF messages[k].tool = "list_sources"
         THEN /\ handlers[k].pc \in {"none", "done"}
              /\ handlers[k].started = {} /\ handlers[k].fetched = {}
         ELSE /\ handlers[k].pc = "fetching" => handlers[k].result.kind = "none"
              /\ handlers[k].pc = "done" =>
                   /\ handlers[k].started = {i \in 1..Len(env) :
                                               /\ ~env[i].embedded
                                               /\ env[i].raw # Undefined \/ env[i].url # Undefined}
                   /\ handlers[k].fetched = handlers[k].started

C28_Witness ==
  /\ pc = "done" /\ Len(handlers) = 2
  /\ messages[1].tool = "list_sources" /\ handlers[1].pc = "done"
  /\ handlers[1].started = {} /\ Len(handlers[1].result.sources) = 3
  /\ messages[2].tool = "delete_everything" /\ handlers[2].pc = "done"
  /\ handlers[2].fetched = {1, 2}

\* C29: no fetch is ever issued for a source that carries an embedded
\* snapshot, also when it has a url or a raw url as well and also when the
\* snapshot is empty; the corpus of a finished aggregation holds the records
\* of every snapshot, in registry order among those of the fetched sources.
C29_EmbeddedNeverFetched ==
  \A k \in 1..Len(handlers) :
    /\ \A i \in handlers[k].started \cup handlers[k].fetched \cup handlers[k].failed :
         ~env[i].embedded
    /\ handlers[k].pc = "fetching" => ~env[handlers[k].idx].embedded
    /\ ( /\ handlers[k].pc = "done"
         /\ messages[k].method = "tools/call" /\ messages[k].hasParams
         /\ messages[k].tool # "list_sources" /\ env # NotJson )
       => NameAndSource(handlers[k].allData) = Contributed(env, handlers[k].failed, 1)

C29_Witness ==
  \E k \in 1..Len(handlers) :
    /\ handlers[k].pc = "done"
    /\ Len(env) = 3
    /\ env[1].embedded /\ env[1].url # Undefined /\ env[1].raw # Undefined
    /\ env[2].embedded /\ env[2].data = <<>> /\ env[2].raw # Undefined
    /\ handlers[k].started = {3} /\ handlers[k].fetched = {3} /\ handlers[k].failed = {}
    /\ NameAndSource(handlers[k].allData) = <<<<"Foo", "E">>, <<"Bar", "G">>>>

EmbeddedOnly == env # <<>> /\ \A i \in 1..Len(env) : env[i].embedded

\* Two tools/call messages with the same tool name and the same arguments.
SameCall(m, n) ==
  /\ m.method = "tools/call" /\ n.method = "tools/call"
  /\ m.hasParams = n.hasParams /\ m.tool = n.tool
  /\ m.hasArgs = n.hasArgs /\ m.args = n.args

WithoutId(envelope) == [envelope EXCEPT !.id = Undefined]

WithoutMinted(envelope) == [f \in DOMAIN envelope \ {"_sessionId"} |-> envelope[f]]

\* The envelope that message k gets from the message, the registry and the
\* corpus its aggregation has merged, with no regard to the session header.
Expected(k) ==
  IF Aggregates(messages[k])
  THEN callTool(messages[k], handlers[k].allData)
  ELSE handleRequest(messages[k], env).result

\* The results of the activations, in the order of their messages.
ResultsInOrder ==
  LET hs == SelectSeq(handlers, LAMBDA h : h.pc = "done")
  IN [j \in 1..Len(hs) |-> hs[j].result]

\* C31: the Mcp-Session-Id header of a POST has no effect: status, kind of
\* body and envelopes are those that the body, the Accept header and the
\* registry give, whether the header is absent, an identifier minted earlier
\* or any other text; only the _sessionId of an initialize result varies, and
\* it is freshly minted, never the identifier of the header.
C31_SessionHeaderIgnored ==
  request.method = "POST" =>
    /\ pc = "done" =>
         /\ response.status =
              (IF request.body = "unparseable" THEN 400
               ELSE IF \E i \in 1..Len(messages) :
                         messages[i].method # Undefined /\ messages[i].id # Undefined
                    THEN 200 ELSE 202)
         /\ response.body =
              (IF response.status = 400 THEN "json"
               ELSE IF response.status = 202 THEN "none"
               ELSE IF request.accept THEN "stream" ELSE "json")
         /\ response.status = 200 =>
              response.envelopes \o writer.frames = ResultsInOrder
    /\ \A k \in 1..Len(handlers) :
         handlers[k].pc = "done" =>
           /\ WithoutMinted(handlers[k].result) = Expected(k)
           /\ IF messages[k].method = "initialize"
              THEN handlers[k].result._sessionId \in Fresh
              ELSE "_sessionId" \notin DOMAIN handlers[k].result

C31_Witness ==
  /\ pc = "done" /\ request.method = "POST"
  /\ request.session = "uuid-1"
  /\ Len(messages) = 2
  /\ messages[1].method = "initialize" /\ messages[2].tool = "get_raw_api_data"
  /\ Len(response.envelopes) = 2
  /\ response.envelopes[1]._sessionId = "uuid-3"
  /\ response.envelopes[2].kind = "result" /\ Len(response.envelopes[2].data) = 3

\* C32: a tools/call of get_raw_api_data, search_classes or search_functions
\* that omits every optional argument, or carries no arguments object at all,
\* is answered with a result envelope; get_raw_api_data then returns the
\* full corpus.
C32_NoArgumentsSucceeds ==
  \A k \in 1..Len(handlers) :
    ( /\ handlers[k].pc = "done"
      /\ messages[k].method = "tools/call" /\ messages[k].hasParams
      /\ messages[k].tool \in {"get_raw_api_data", "search_classes", "search_functions"}
      /\ ~messages[k].hasArgs \/ messages[k].args = NoArguments
      /\ env # NotJson )
    => /\ handlers[k].result.kind = "result"
       /\ messages[k].tool = "get_raw_api_data" =>
            handlers[k].result.data = handlers[k].allData

\* C33: every POST to /mcp whose body parses as JSON ends with 202 or with a
\* buffered or streamed response of envelopes; no body, a null body and a
\* batch with a null element included, makes handlePost throw.
C33_NoUncaughtException ==
  (pc = "done" /\ ParsedPost) =>
    /\ response.body # "exception"
    /\ response.status \in {200, 202}

\* C34: a message is dispatched and answered only if it has both a method
\* and an id: a message with an id and no method gets no activation and no
\* envelope, whatever else the batch holds.
C34_DispatchedOnlyWithMethodAndId ==
  ParsedPost =>
    /\ \A k \in 1..Len(handlers) :
         (~messages[k].isNull /\ messages[k].method = Undefined) => handlers[k].pc = "none"
    /\ \A j \in 1..Len(EnvelopesReturned) :
         \A k \in 1..Len(messages) :
           (EnvelopesReturned[j].id # Undefined /\ EnvelopesReturned[j].id = messages[k].id)
             => messages[k].method # Undefined

\* C35: buffered and streamed delivery carry the same sequence of envelopes:
\* for every batch with at least one request, whichever delivery the Accept
\* header selects, every message with an id is answered, also after a
\* -32601 or -32603 envelope, and the response carries exactly the envelopes
\* that the messages, the registry and the fetched payloads give, in input
\* order.
C35_DeliveriesEquivalent ==
  ( /\ pc = "done" /\ ParsedPost
    /\ \E i \in 1..Len(messages) :
         messages[i].method # Undefined /\ messages[i].id # Undefined )
  => /\ Len(handlers) = Len(messages)
     /\ \A k \in 1..Len(messages) :
          messages[k].id # Undefined =>
            handlers[k].pc = "done" /\ handlers[k].result = Expected(k)
     /\ EnvelopesReturned = ResultsInOrder

====
